---- MODULE Spec2Model ----
(***************************************************************************)
(* Verification model of the rock-paper-scissors correspondence game:      *)
(*   - the signed-token codec (hmacManager, encryption),                   *)
(*   - the config-derived game-state schema (schemaGenerator),             *)
(*   - the turn engine (turnEngine),                                       *)
(*   - the App state machine (App.tsx).                                    *)
(* Strings are sequences of code units (naturals).  The base64 alphabet is *)
(* the code units 0..B64Base-1, the hex digits are the code units          *)
(* 0..HexBase-1 (hex digits are base64 characters too) and the separator   *)
(* '.' is the first code unit outside the base64 alphabet.                 *)
(***************************************************************************)
EXTENDS Integers, Sequences, FiniteSets, TLC

\* ------------------------------------------------------------------ bounds
\* size of the base64 alphabet of the model (64 in the browser)
B64Base == 4
\* length of a hex tag (64 hex digits for SHA-256)
TagLen == 2
\* longest attacker-supplied token that is enumerated exhaustively
MaxForgedLen == 3
\* longest payload string signed directly (not produced by encryptGameState)
MaxRawLen == 3
\* largest salt CryptoJS may draw for one encryption
MaxSalt == 1
\* rounds of the snapshots that are pushed through the codec
CodecRounds == 2
\* longest round history of a snapshot pushed through the codec
CodecHistory == 2

\* ------------------------------------------------------------- code units
\* number of hex digits (hex digits are a subset of the base64 alphabet)
HexBase == B64Base
\* the separator '.' of encodeSignedData: not a base64 character
DOT == B64Base
\* one character of an ASCII text carries two base64 symbols in the model
ByteBase == B64Base * B64Base
B64Symbols == 0 .. (B64Base - 1)
HexDigits == 0 .. (HexBase - 1)
TokenChars == 0 .. DOT
TextChars == 0 .. (ByteBase - 1)

\* the value JavaScript calls undefined / null
UNDEF == "undefined"

\* all sequences over S of length lo..hi
SeqsOf(S, lo, hi) == UNION { [1 .. n -> S] : n \in lo .. hi }

\* a ^ b for naturals
RECURSIVE Pow(_, _)
Pow(a, b) == IF b = 0 THEN 1 ELSE a * Pow(a, b - 1)

\* --------------------------------------------------------- hmacManager.ts
\* GAME_SECRET as the key of the keyed hash and of the cipher
GAME_SECRET == 3
\* longest text handed to verifyHMAC on its own
MaxSignedLen == 2
\* multiplier of the keyed polynomial hash standing for HMAC-SHA256
HashMult == 7
HashModulus == Pow(HexBase, TagLen)

RECURSIVE HmacSHA256(_, _)
HmacSHA256(data, key) ==
  IF data = << >> THEN key % HashModulus
  ELSE LET h == HmacSHA256(SubSeq(data, 1, Len(data) - 1), key)
       IN (h * HashMult + data[Len(data)] + 1) % HashModulus

\* hmac.toString(CryptoJS.enc.Hex): always TagLen hex digits
ToHex(n) == [i \in 1 .. TagLen |-> (n \div Pow(HexBase, TagLen - i)) % HexBase]

generateHMAC(data) == ToHex(HmacSHA256(data, GAME_SECRET))

\* verifyHMAC with "result =" for "result |=": only the last position counts
XorAccumulate_Overwrite(signature, expected, n) ==
  IF n = 0 THEN 0
  ELSE IF signature[n] = expected[n] THEN 0 ELSE 1

\* the accumulator of verifyHMAC after the first n positions:
\* result |= signature.charCodeAt(i) ^ expected.charCodeAt(i)
RECURSIVE XorAccumulate(_, _, _)
XorAccumulate(signature, expected, n) ==
  IF n = 0 THEN 0
  ELSE LET acc == XorAccumulate(signature, expected, n - 1)
       IN IF signature[n] = expected[n] THEN acc ELSE 1

verifyHMAC(data, signature) ==
  LET expected == generateHMAC(data)
  IN IF Len(signature) /= Len(expected) THEN FALSE
     ELSE XorAccumulate(signature, expected, Len(signature)) = 0

\* the comparison loop of verifyHMAC leaving at the first mismatch
ComparisonLoop_EarlyExit(signature, expected, i, result) ==
  LET mismatches == { k \in (i + 1) .. Len(signature) :
                        signature[k] /= expected[k] }
  IN IF mismatches = { }
     THEN [result |-> result, examined |-> Len(signature)]
     ELSE [result |-> 1,
           examined |-> CHOOSE k \in mismatches :
                          \A j \in mismatches : k <= j]

\* for (let i = 0; i < signature.length; i++) result |= ... ^ ...: the loop
\* from index i (0-based) with the accumulator at result (1 stands for any
\* non-zero value); examined is the index the loop stops at, the number of
\* positions it read
RECURSIVE ComparisonLoop(_, _, _, _)
ComparisonLoop(signature, expected, i, result) ==
  IF i < Len(signature)
  THEN ComparisonLoop(signature, expected, i + 1,
                      IF signature[i + 1] = expected[i + 1]
                      THEN result ELSE 1)
  ELSE [result |-> result, examined |-> i]

\* one call of verifyHMAC: the value it returns and the number of positions
\* its loop read before it returned
verifyHMACRun(data, signature) ==
  LET expected == generateHMAC(data)
  IN IF Len(signature) /= Len(expected)
     THEN [value |-> FALSE, examined |-> 0]
     ELSE LET loop == ComparisonLoop(signature, expected, 0, 0)
          IN [value |-> loop.result = 0, examined |-> loop.examined]

signData(data) == [data |-> data, signature |-> generateHMAC(data)]

HMACError(msg) == [name |-> "HMACError", message |-> msg]

\* result of a call: ok tells whether it returned, value what it returned,
\* error what it threw, log the stages that ran, in order
Returned(v, l) == [ok |-> TRUE, value |-> v, error |-> UNDEF, log |-> l]
Threw(e, l) == [ok |-> FALSE, value |-> UNDEF, error |-> e, log |-> l]

\* verifySignedData that hands the data back without looking at the tag
verifySignedData_Unchecked(signed) == Returned(signed.data, << "hmac" >>)

verifySignedData(signed) ==
  IF ~ verifyHMAC(signed.data, signed.signature)
  THEN Threw(HMACError("verification failed"), << "hmac" >>)
  ELSE Returned(signed.data, << "hmac" >>)

encodeSignedData(signed) == signed.data \o << DOT >> \o signed.signature

\* encoded.indexOf(c) in the place of lastIndexOf
RECURSIVE LastIndexOf_First(_, _)
LastIndexOf_First(s, c) ==
  IF s = << >> THEN 0
  ELSE IF s[1] = c THEN 1
  ELSE LET r == LastIndexOf_First(Tail(s), c)
       IN IF r = 0 THEN 0 ELSE r + 1

\* encoded.lastIndexOf(c), 1-based; 0 when c does not occur
RECURSIVE LastIndexOf(_, _)
LastIndexOf(s, c) ==
  IF s = << >> THEN 0
  ELSE IF s[Len(s)] = c THEN Len(s)
  ELSE LastIndexOf(SubSeq(s, 1, Len(s) - 1), c)

\* decodeSignedData without the check for an empty half
decodeSignedData_NoEmptyCheck(encoded) ==
  LET lastDotIndex == LastIndexOf(encoded, DOT)
      data == SubSeq(encoded, 1, lastDotIndex - 1)
      signature == SubSeq(encoded, lastDotIndex + 1, Len(encoded))
  IN IF lastDotIndex = 0
     THEN Threw(HMACError("missing signature separator"), << "split" >>)
     ELSE LET v == verifySignedData([data |-> data, signature |-> signature])
          IN [v EXCEPT !.log = << "split" >> \o v.log]

decodeSignedData(encoded) ==
  LET lastDotIndex == LastIndexOf(encoded, DOT)
      data == SubSeq(encoded, 1, lastDotIndex - 1)
      signature == SubSeq(encoded, lastDotIndex + 1, Len(encoded))
  IN IF lastDotIndex = 0
     THEN Threw(HMACError("missing signature separator"), << "split" >>)
     ELSE IF data = << >> \/ signature = << >>
     THEN Threw(HMACError("empty data or signature"), << "split" >>)
     ELSE LET v == verifySignedData([data |-> data, signature |-> signature])
          IN [v EXCEPT !.log = << "split" >> \o v.log]

\* ----------------------------------------------------------- encryption.ts
\* A codec snapshot: the round counter and the ordered round history, each
\* round being the pair of the two players' choice ids.
CodecChoiceIds == { 1, 2 }
CodecRoundRecords == CodecChoiceIds \X CodecChoiceIds
CodecSnapshots ==
  [currentRound : 1 .. CodecRounds,
   rounds : SeqsOf(CodecRoundRecords, 0, CodecHistory)]

\* code units of the JSON text: a digit for the round counter, a letter per
\* choice id
IsDigit(c) == c \in 1 .. 9
IsLetter(c) == c \in 10 .. (ByteBase - 1)
LetterOf(id) == id + 9
IdOf(c) == c - 9

RECURSIVE StringifyRounds(_)
StringifyRounds(rounds) ==
  IF rounds = << >> THEN << >>
  ELSE << LetterOf(rounds[1][1]), LetterOf(rounds[1][2]) >>
       \o StringifyRounds(Tail(rounds))

\* JSON.stringify(gameState): fields in insertion order, history in order
JSONstringify(gameState) ==
  << gameState.currentRound >> \o StringifyRounds(gameState.rounds)

RECURSIVE ParseRounds(_)
ParseRounds(text) ==
  IF text = << >> THEN << >>
  ELSE << << IdOf(text[1]), IdOf(text[2]) >> >>
       \o ParseRounds(SubSeq(text, 3, Len(text)))

Error(msg) == [name |-> "Error", message |-> msg]

\* JSON.parse(json): throws a SyntaxError on text outside the grammar
JSONparse(json) ==
  IF /\ Len(json) >= 1
     /\ IsDigit(json[1])
     /\ (Len(json) - 1) % 2 = 0
     /\ \A i \in 2 .. Len(json) : IsLetter(json[i])
  THEN Returned([currentRound |-> json[1],
                 rounds |-> ParseRounds(Tail(json))], << >>)
  ELSE Threw([name |-> "SyntaxError", message |-> "Unexpected token"], << >>)

\* length of the run of equal code units at the head of a non-empty text
RECURSIVE RunLength(_)
RunLength(text) ==
  IF Len(text) = 1 \/ text[2] /= text[1] THEN 1
  ELSE 1 + RunLength(Tail(text))

\* LZString.compressToEncodedURIComponent: a lossless text compressor,
\* modelled as run-length coding (code unit, run length)
RECURSIVE compressToEncodedURIComponent(_)
compressToEncodedURIComponent(text) ==
  IF text = << >> THEN << >>
  ELSE LET n == RunLength(text)
       IN << text[1], n >>
          \o compressToEncodedURIComponent(SubSeq(text, n + 1, Len(text)))

RECURSIVE ExpandRuns(_)
ExpandRuns(input) ==
  IF input = << >> THEN << >>
  ELSE [i \in 1 .. input[2] |-> input[1]]
       \o ExpandRuns(SubSeq(input, 3, Len(input)))

\* LZString.decompressFromEncodedURIComponent: null for an empty or
\* truncated input, the expansion (possibly empty) otherwise
decompressFromEncodedURIComponent(input) ==
  IF input = << >> \/ Len(input) % 2 /= 0
  THEN [null |-> TRUE, text |-> << >>]
  ELSE [null |-> FALSE, text |-> ExpandRuns(input)]

\* CryptoJS.AES.encrypt(text, GAME_SECRET).toString(): the salt drawn for
\* this encryption, then the text enciphered under key and salt
AESencrypt(text, key, salt) ==
  << salt >> \o [i \in 1 .. Len(text) |-> (text[i] + key + salt) % ByteBase]

\* a decryption that forgets the salt
AESdecrypt_NoSalt(ct, key) ==
  IF ct = << >> THEN << >>
  ELSE [i \in 1 .. (Len(ct) - 1) |->
          (ct[i + 1] + 2 * ByteBase - key) % ByteBase]

\* CryptoJS.AES.decrypt(ct, GAME_SECRET).toString(CryptoJS.enc.Utf8):
\* the empty string when nothing follows the salt
AESdecrypt(ct, key) ==
  IF ct = << >> THEN << >>
  ELSE [i \in 1 .. (Len(ct) - 1) |->
          (ct[i + 1] + 2 * ByteBase - key - ct[1]) % ByteBase]

\* btoa(text): every character becomes two base64 symbols
RECURSIVE btoa(_)
btoa(text) ==
  IF text = << >> THEN << >>
  ELSE << text[1] \div B64Base, text[1] % B64Base >> \o btoa(Tail(text))

RECURSIVE FromB64(_)
FromB64(encoded) ==
  IF encoded = << >> THEN << >>
  ELSE << encoded[1] * B64Base + encoded[2] >>
       \o FromB64(SubSeq(encoded, 3, Len(encoded)))

\* atob(encoded): throws InvalidCharacterError on a character outside the
\* base64 alphabet or on a truncated input
atob(encoded) ==
  IF /\ Len(encoded) % 2 = 0
     /\ \A i \in 1 .. Len(encoded) : encoded[i] \in B64Symbols
  THEN Returned(FromB64(encoded), << >>)
  ELSE Threw([name |-> "InvalidCharacterError", message |-> "atob"], << >>)

encryptGameState(gameState, salt) ==
  LET json == JSONstringify(gameState)
      compressed == compressToEncodedURIComponent(json)
      encrypted == AESencrypt(compressed, GAME_SECRET % ByteBase, salt)
  IN btoa(encrypted)

\* the body of the try block of decryptGameState
DecryptStages(encoded) ==
  LET encrypted == atob(encoded)
  IN IF ~ encrypted.ok THEN Threw(encrypted.error, << "atob" >>)
     ELSE
     LET decrypted == AESdecrypt(encrypted.value, GAME_SECRET % ByteBase)
     IN IF decrypted = << >>
        THEN Threw(Error("Decryption produced empty result"),
                   << "atob", "decrypt" >>)
        ELSE
        LET json == decompressFromEncodedURIComponent(decrypted)
        IN IF json.null \/ json.text = << >>
           THEN Threw(Error("Decompression produced empty result"),
                      << "atob", "decrypt", "decompress" >>)
           ELSE
           LET parsed == JSONparse(json.text)
               stages == << "atob", "decrypt", "decompress", "parse" >>
           IN IF parsed.ok THEN Returned(parsed.value, stages)
              ELSE Threw(parsed.error, stages)

\* decryptGameState: whatever the try block throws is caught and replaced
decryptGameState(encoded) ==
  LET body == DecryptStages(encoded)
  IN IF body.ok THEN body
     ELSE Threw(Error("Failed to decrypt game state"), body.log)

\* ------------------------------------------------------- configurations
\* most rounds a configuration of the model asks for
MaxTotalRounds == 3
\* largest round number handed to the turn engine
MaxRoundNumber == 6

Players == { 1, 2 }
ChoiceIds == << "rock", "paper", "scissors" >>

\* rock beats scissors, scissors beats paper, paper beats rock
Beats(a, b) ==
  \/ a = "rock" /\ b = "scissors"
  \/ a = "scissors" /\ b = "paper"
  \/ a = "paper" /\ b = "rock"

Score(a, b) == IF Beats(a, b) THEN 1 ELSE IF Beats(b, a) THEN 0 - 1 ELSE 0

\* the payoff rules of rock-paper-scissors.yaml, one per ordered pair
RpsPayoffRules ==
  [k \in 1 .. (Len(ChoiceIds) * Len(ChoiceIds)) |->
     LET a == ChoiceIds[((k - 1) \div Len(ChoiceIds)) + 1]
         b == ChoiceIds[((k - 1) % Len(ChoiceIds)) + 1]
     IN [condition |-> [player1 |-> a, player2 |-> b],
         outcome |-> [player1 |-> Score(a, b), player2 |-> Score(b, a)]]]

GameTypes == { "rock-paper-scissors", "prisoners-dilemma" }
GameVersions == { "1.0.0", "2.0.0" }

\* a validated GameConfig
GameConfig(id, version, totalRounds, startingPlayer, alternateStarter) ==
  [metadata |-> [id |-> id, version |-> version],
   choices |-> [i \in 1 .. Len(ChoiceIds) |-> [id |-> ChoiceIds[i]]],
   payoffRules |-> RpsPayoffRules,
   progression |-> [totalRounds |-> totalRounds,
                    startingPlayer |-> startingPlayer,
                    alternateStarter |-> alternateStarter]]

Configs ==
  { GameConfig(id, v, t, p, a) :
      id \in GameTypes, v \in GameVersions, t \in 1 .. MaxTotalRounds,
      p \in Players, a \in BOOLEAN }

RpsConfig == GameConfig("rock-paper-scissors", "1.0.0", 3, 1, TRUE)

\* ------------------------------------------------------------ turnEngine.ts
\* JavaScript truthiness of an optional string and of an optional number
\* (pendingResultsForRound: 0 stands for undefined)
Truthy(x) == x /= UNDEF /\ x /= ""
TruthyNum(n) == n /= 0

\* determineRoundStarter with the parity test the wrong way round
determineRoundStarter_EvenFirst(cfg, roundNumber) ==
  IF ~ cfg.progression.alternateStarter
  THEN cfg.progression.startingPlayer
  ELSE IF roundNumber % 2 = 0
  THEN cfg.progression.startingPlayer
  ELSE IF cfg.progression.startingPlayer = 1 THEN 2 ELSE 1

determineRoundStarter(cfg, roundNumber) ==
  IF ~ cfg.progression.alternateStarter
  THEN cfg.progression.startingPlayer
  ELSE IF roundNumber % 2 = 1
  THEN cfg.progression.startingPlayer
  ELSE IF cfg.progression.startingPlayer = 1 THEN 2 ELSE 1

\* PlayerNumber | undefined
SomePlayer(p) == [none |-> FALSE, player |-> p]
NoPlayer == [none |-> TRUE, player |-> 0]

\* determineNextPlayer that opens every round with the configured starting
\* player, whatever the round
determineNextPlayer_NoAlternation(cfg, roundNumber, player1Choice, player2Choice) ==
  IF ~ Truthy(player1Choice) /\ ~ Truthy(player2Choice)
  THEN SomePlayer(cfg.progression.startingPlayer)
  ELSE IF ~ Truthy(player1Choice) THEN SomePlayer(1)
  ELSE IF ~ Truthy(player2Choice) THEN SomePlayer(2)
  ELSE NoPlayer

determineNextPlayer(cfg, roundNumber, player1Choice, player2Choice) ==
  LET starter == determineRoundStarter(cfg, roundNumber)
      responder == IF starter = 1 THEN 2 ELSE 1
      starterChoice == IF starter = 1 THEN player1Choice ELSE player2Choice
      responderChoice ==
        IF responder = 1 THEN player1Choice ELSE player2Choice
  IN IF ~ Truthy(player1Choice) /\ ~ Truthy(player2Choice)
     THEN SomePlayer(starter)
     ELSE IF ~ Truthy(starterChoice) THEN SomePlayer(starter)
     ELSE IF ~ Truthy(responderChoice) THEN SomePlayer(responder)
     ELSE NoPlayer

isRoundComplete(player1Choice, player2Choice) ==
  player1Choice /= UNDEF /\ player2Choice /= UNDEF

\* canPlayerMove without the check of whose turn it is
canPlayerMove_NoTurnCheck(cfg, currentRound, player, player1Choice, player2Choice) ==
  IF currentRound > cfg.progression.totalRounds THEN FALSE
  ELSE IF isRoundComplete(player1Choice, player2Choice) THEN FALSE
  ELSE (IF player = 1 THEN player1Choice ELSE player2Choice) = UNDEF

canPlayerMove(cfg, currentRound, player, player1Choice, player2Choice) ==
  LET nextPlayer == determineNextPlayer(cfg, currentRound,
                                        player1Choice, player2Choice)
      playerChoice == IF player = 1 THEN player1Choice ELSE player2Choice
  IN IF currentRound > cfg.progression.totalRounds THEN FALSE
     ELSE IF isRoundComplete(player1Choice, player2Choice) THEN FALSE
     ELSE IF nextPlayer /= SomePlayer(player) THEN FALSE
     ELSE IF playerChoice /= UNDEF THEN FALSE
     ELSE TRUE

\* isGameComplete that also counts the rounds past the last one
isGameComplete_AtLeast(currentRound, totalRounds, roundComplete) ==
  currentRound >= totalRounds /\ roundComplete

isGameComplete(currentRound, totalRounds, roundComplete) ==
  currentRound = totalRounds /\ roundComplete

calculateNextRound(currentRound, totalRounds) ==
  IF currentRound >= totalRounds THEN currentRound ELSE currentRound + 1

\* -------------------------------------------------------- schemaGenerator.ts
\* A JavaScript number n is the pair << whole, tenths >> with
\* n = whole + tenths / 10 and tenths in 0 .. 9.
Num(k) == << k, 0 >>
IsInteger(n) == n[2] = 0
NumGE(n, k) == n[1] >= k
NumLE(n, k) == n[1] < k \/ (n[1] = k /\ n[2] = 0)

\* z.string().uuid() and z.string().datetime() on the strings of the model
Uuids == { "6f1c-uuid-game", "9a2e-uuid-p1", "c3d4-uuid-p2" }
IsUuid(x) == x \in Uuids
IsDateTime(x) == x = "2024-01-01T00:00:00.000Z"

generateChoiceIdSchema(cfg, x) ==
  \E i \in 1 .. Len(cfg.choices) : cfg.choices[i].id = x

generateRoundSchema(cfg, round) ==
  /\ generateChoiceIdSchema(cfg, round.player1Choice)
  /\ generateChoiceIdSchema(cfg, round.player2Choice)

generateRoundHistorySchema(cfg, history) ==
  \A i \in 1 .. Len(history) : generateRoundSchema(cfg, history[i])

GameTypeSchema(cfg, x) == x = cfg.metadata.id

\* gameVersion validated as any string instead of the literal
GameVersionSchema_AnyString(cfg, x) == x /= UNDEF

GameVersionSchema(cfg, x) == x = cfg.metadata.version

\* currentRound validated without .int()
CurrentRoundSchema_NoInt(cfg, n) ==
  NumGE(n, 1) /\ NumLE(n, cfg.progression.totalRounds)

\* z.number().int().min(1).max(config.progression.totalRounds)
CurrentRoundSchema(cfg, n) ==
  /\ IsInteger(n)
  /\ NumGE(n, 1)
  /\ NumLE(n, cfg.progression.totalRounds)

PendingChoiceSchema(cfg, pending) ==
  ~ pending.present
    \/ (IsUuid(pending.playerId) /\ generateChoiceIdSchema(cfg, pending.choice))

\* the fields of the snapshot that generateGameStateSchema(cfg) turns down
GameStateIssues(cfg, s) ==
  { f \in { "gameId", "gameType", "gameVersion", "player1Id", "player2Id",
            "player1Name", "currentRound", "totalRounds", "roundHistory",
            "currentStarter", "pendingChoice", "createdAt", "updatedAt" } :
      \/ f = "gameId" /\ ~ IsUuid(s.gameId)
      \/ f = "gameType" /\ ~ GameTypeSchema(cfg, s.gameType)
      \/ f = "gameVersion" /\ ~ GameVersionSchema(cfg, s.gameVersion)
      \/ f = "player1Id" /\ ~ IsUuid(s.player1Id)
      \/ f = "player2Id" /\ ~ (s.player2Id = UNDEF \/ IsUuid(s.player2Id))
      \/ f = "player1Name" /\ ~ (s.player1Name /= UNDEF /\ s.player1Name /= "")
      \/ f = "currentRound" /\ ~ CurrentRoundSchema(cfg, s.currentRound)
      \/ f = "totalRounds" /\ s.totalRounds /= cfg.progression.totalRounds
      \/ f = "roundHistory"
           /\ ~ generateRoundHistorySchema(cfg, s.roundHistory)
      \/ f = "currentStarter" /\ s.currentStarter \notin { 1, 2 }
      \/ f = "pendingChoice" /\ ~ PendingChoiceSchema(cfg, s.pendingChoice)
      \/ f = "createdAt" /\ ~ IsDateTime(s.createdAt)
      \/ f = "updatedAt" /\ ~ IsDateTime(s.updatedAt) }

\* generateGameStateSchema(cfg).safeParse(s)
generateGameStateSchema(cfg, s) ==
  LET issues == GameStateIssues(cfg, s)
  IN [success |-> issues = { }, issues |-> issues]

\* a snapshot that generateGameStateSchema(cfg) accepts
ValidSnapshot(cfg) ==
  [gameId |-> "6f1c-uuid-game",
   gameType |-> cfg.metadata.id,
   gameVersion |-> cfg.metadata.version,
   player1Id |-> "9a2e-uuid-p1",
   player2Id |-> UNDEF,
   player1Name |-> "Ann",
   player2Name |-> UNDEF,
   currentRound |-> Num(1),
   totalRounds |-> cfg.progression.totalRounds,
   roundHistory |-> << >>,
   currentStarter |-> 1,
   pendingChoice |-> [present |-> FALSE],
   player1Total |-> 0,
   player2Total |-> 0,
   createdAt |-> "2024-01-01T00:00:00.000Z",
   updatedAt |-> "2024-01-01T00:00:00.000Z"]

\* what a token may carry in the other fields
OtherFields == { "valid", "gameId", "player1Name", "roundHistory",
                 "currentStarter", "pendingChoice", "updatedAt" }

WithOtherFields(s, v) ==
  CASE v = "valid" -> s
    [] v = "gameId" -> [s EXCEPT !.gameId = "not-a-uuid"]
    [] v = "player1Name" -> [s EXCEPT !.player1Name = ""]
    [] v = "roundHistory" ->
         [s EXCEPT !.roundHistory =
            << [player1Choice |-> "rock", player2Choice |-> "lizard",
                player1Score |-> 1, player2Score |-> 0 - 1] >>]
    [] v = "currentStarter" -> [s EXCEPT !.currentStarter = 3]
    [] v = "pendingChoice" ->
         [s EXCEPT !.pendingChoice =
            [present |-> TRUE, playerId |-> "9a2e-uuid-p1",
             choice |-> "paper"]]
    [] v = "updatedAt" -> [s EXCEPT !.updatedAt = "yesterday"]

\* the snapshots handed to a schema
Snapshots(cfg) ==
  { [WithOtherFields(ValidSnapshot(cfg), v) EXCEPT
       !.gameType = gt, !.gameVersion = gv, !.currentRound = << w, t >>] :
      v \in OtherFields,
      gt \in GameTypes \cup { UNDEF },
      gv \in GameVersions \cup { UNDEF },
      w \in 0 .. (MaxTotalRounds + 2),
      t \in { 0, 5 } }

\* number of schema objects getGameSchemas is followed to
MaxGenerated == 3

\* getGameSchemas keyed by the game id alone
SchemaCacheKey_IdOnly(cfg) == cfg.metadata.id

\* const cacheKey = `${config.metadata.id}-${config.metadata.version}`
SchemaCacheKey(cfg) == cfg.metadata.id \o "-" \o cfg.metadata.version

\* the object getGameSchemas builds: four schemas closed over cfg; serial
\* tells one built object from another
GeneratedSchemas(cfg, serial) == [config |-> cfg, serial |-> serial]

\* getGameSchemas(config) with the Map at cache and count objects built so
\* far: the object returned, the Map and the count afterwards
getGameSchemas(cache, count, cfg) ==
  LET cacheKey == SchemaCacheKey(cfg)
  IN IF cacheKey \in DOMAIN cache
     THEN [cached |-> cache[cacheKey], cache |-> cache, count |-> count]
     ELSE LET built == GeneratedSchemas(cfg, count + 1)
          IN [cached |-> built,
              cache |-> [k \in DOMAIN cache \cup { cacheKey } |->
                           IF k = cacheKey THEN built ELSE cache[k]],
              count |-> count + 1]

\* the validated configurations handed to getGameSchemas: one id has the
\* '-' and a version text in it, and configurations of one id and version
\* differ in their progression
SchemaGameTypes == GameTypes \cup { "rock-paper-scissors-1.0.0" }
SchemaConfigs ==
  { GameConfig(id, v, 1, p, TRUE) :
      id \in SchemaGameTypes, v \in GameVersions, p \in Players }

\* ---------------------------------------------------------- payoffEngine
PayoffCalculationError(msg) ==
  [name |-> "PayoffCalculationError", message |-> msg]

\* index of the first payoff rule whose condition is (a, b); 0 when none
FindRule(cfg, a, b) ==
  LET hits == { k \in 1 .. Len(cfg.payoffRules) :
                  /\ cfg.payoffRules[k].condition.player1 = a
                  /\ cfg.payoffRules[k].condition.player2 = b }
  IN IF hits = { } THEN 0
     ELSE CHOOSE k \in hits : \A j \in hits : k <= j

\* calculatePayoff without the check of the two ids against config.choices
calculatePayoff_NoValidation(cfg, player1Choice, player2Choice) ==
  LET k == FindRule(cfg, player1Choice, player2Choice)
  IN IF k = 0
     THEN [ok |-> FALSE, player1Score |-> 0, player2Score |-> 0,
           error |->
             PayoffCalculationError("No payoff rule found for combination")]
     ELSE [ok |-> TRUE,
           player1Score |-> cfg.payoffRules[k].outcome.player1,
           player2Score |-> cfg.payoffRules[k].outcome.player2,
           error |-> UNDEF]

calculatePayoff(cfg, player1Choice, player2Choice) ==
  LET validChoiceIds == { cfg.choices[i].id : i \in 1 .. Len(cfg.choices) }
      k == FindRule(cfg, player1Choice, player2Choice)
      failed(msg) == [ok |-> FALSE, player1Score |-> 0, player2Score |-> 0,
                      error |-> PayoffCalculationError(msg)]
  IN IF player1Choice \notin validChoiceIds
     THEN failed("Invalid choice for player 1")
     ELSE IF player2Choice \notin validChoiceIds
     THEN failed("Invalid choice for player 2")
     ELSE IF k = 0
     THEN failed("No payoff rule found for combination")
     ELSE [ok |-> TRUE,
           player1Score |-> cfg.payoffRules[k].outcome.player1,
           player2Score |-> cfg.payoffRules[k].outcome.player2,
           error |-> UNDEF]

\* one cell of the matrix: the try branch and the catch branch
MatrixCell(cfg, a, b) ==
  LET payoff == calculatePayoff(cfg, a, b)
  IN IF payoff.ok
     THEN [player1Choice |-> a, player2Choice |-> b,
           player1Score |-> payoff.player1Score,
           player2Score |-> payoff.player2Score,
           outcomeText |-> UNDEF]
     ELSE [player1Choice |-> a, player2Choice |-> b,
           player1Score |-> 0, player2Score |-> 0,
           outcomeText |-> "Invalid combination"]

\* buildPayoffMatrix with the two players of every cell exchanged
buildPayoffMatrix_Transposed(cfg) ==
  [i \in 1 .. Len(cfg.choices) |->
     [j \in 1 .. Len(cfg.choices) |->
        MatrixCell(cfg, cfg.choices[j].id, cfg.choices[i].id)]]

buildPayoffMatrix(cfg) ==
  [i \in 1 .. Len(cfg.choices) |->
     [j \in 1 .. Len(cfg.choices) |->
        MatrixCell(cfg, cfg.choices[i].id, cfg.choices[j].id)]]

\* ---------------------------------------------------------------- loader.ts
\* the concatenation F[1] \o ... \o F[n] of a family of sequences
RECURSIVE ConcatAll(_, _)
ConcatAll(F, n) == IF n = 0 THEN << >> ELSE ConcatAll(F, n - 1) \o F[n]

\* one entry of ConfigValidationError.errors: the class of the check that
\* made it, its text, the choice ids it quotes, and the two counts the
\* size message quotes (0 elsewhere)
ErrorEntry(class, text, ids, expected, found) ==
  [class |-> class, text |-> text, ids |-> ids,
   expected |-> expected, found |-> found]

\* e.path.join('.') + ': ' + e.message of a Zod issue
ZodIssue(path, message) ==
  ErrorEntry("structure", path \o ": " \o message, << >>, 0, 0)

ConfigValidationError(message, errors) ==
  [name |-> "ConfigValidationError", message |-> message, errors |-> errors]

IsSemver(v) == v \in { "1.0.0", "2.0.0" }

\* GameConfigSchema.parse: the issues of the whole document, in the order
\* of the schema (metadata, choices, payoffRules, progression)
GameConfigSchemaIssues(d) ==
  (IF d.metadata.id = ""
   THEN << ZodIssue("metadata.id", "Game ID cannot be empty") >>
   ELSE << >>)
  \o (IF ~ IsSemver(d.metadata.version)
      THEN << ZodIssue("metadata.version",
                       "Version must be semver format (e.g., 1.0.0)") >>
      ELSE << >>)
  \o (IF Len(d.choices) < 2
      THEN << ZodIssue("choices", "Must have at least 2 choices") >>
      ELSE << >>)
  \o ConcatAll([i \in 1 .. Len(d.choices) |->
                  IF d.choices[i].id = ""
                  THEN << ZodIssue("choices." \o ToString(i - 1) \o ".id",
                                   "Choice ID cannot be empty") >>
                  ELSE << >>], Len(d.choices))
  \o (IF Len(d.payoffRules) < 1
      THEN << ZodIssue("payoffRules", "Must have at least 1 payoff rule") >>
      ELSE << >>)
  \o ConcatAll([k \in 1 .. Len(d.payoffRules) |->
                  (IF d.payoffRules[k].condition.player1 = ""
                   THEN << ZodIssue("payoffRules." \o ToString(k - 1)
                                      \o ".condition.player1",
                                    "String must contain at least 1 character(s)") >>
                   ELSE << >>)
                  \o (IF d.payoffRules[k].condition.player2 = ""
                      THEN << ZodIssue("payoffRules." \o ToString(k - 1)
                                         \o ".condition.player2",
                                       "String must contain at least 1 character(s)") >>
                      ELSE << >>)], Len(d.payoffRules))
  \o (IF d.progression.totalRounds < 1
      THEN << ZodIssue("progression.totalRounds",
                       "Must have at least 1 round") >>
      ELSE << >>)
  \o (IF d.progression.startingPlayer \notin { 1, 2 }
      THEN << ZodIssue("progression.startingPlayer", "Invalid input") >>
      ELSE << >>)

\* `${rule.condition.player1}:${rule.condition.player2}`
CombinationKey(rule) ==
  rule.condition.player1 \o ":" \o rule.condition.player2

\* first loop of validateGameConfigSemantics
UnknownChoiceErrors(cfg) ==
  LET choiceIds == { cfg.choices[i].id : i \in 1 .. Len(cfg.choices) }
      unknown(id) ==
        IF id \in choiceIds THEN << >>
        ELSE << ErrorEntry("unknown",
                           "Payoff rule references unknown choice ID",
                           << id >>, 0, 0) >>
  IN ConcatAll([k \in 1 .. Len(cfg.payoffRules) |->
                  unknown(cfg.payoffRules[k].condition.player1)
                  \o unknown(cfg.payoffRules[k].condition.player2)],
               Len(cfg.payoffRules))

\* validateGameConfigSemantics without its second loop
DuplicateRuleErrors_Skipped(cfg) == << >>

\* second loop of validateGameConfigSemantics: seenCombinations
DuplicateRuleErrors(cfg) ==
  ConcatAll([k \in 1 .. Len(cfg.payoffRules) |->
               IF \E j \in 1 .. (k - 1) :
                    CombinationKey(cfg.payoffRules[j])
                      = CombinationKey(cfg.payoffRules[k])
               THEN << ErrorEntry("duplicate",
                                  "Duplicate payoff rule for combination",
                                  << cfg.payoffRules[k].condition.player1,
                                     cfg.payoffRules[k].condition.player2 >>,
                                  0, 0) >>
               ELSE << >>],
            Len(cfg.payoffRules))

\* the comparison of payoffRules.length with choices.length squared
CoverageErrors(cfg) ==
  LET expectedCombinations == Len(cfg.choices) * Len(cfg.choices)
  IN IF Len(cfg.payoffRules) /= expectedCombinations
     THEN << ErrorEntry("size",
                        "Expected payoff rules, but found. Every choice combination must have a payoff rule.",
                        << >>, expectedCombinations, Len(cfg.payoffRules)) >>
     ELSE << >>

\* the errors array of validateGameConfigSemantics; it throws when the
\* array is not empty
validateGameConfigSemantics(cfg) ==
  UnknownChoiceErrors(cfg) \o DuplicateRuleErrors(cfg) \o CoverageErrors(cfg)

loadGameConfig(yamlData) ==
  LET issues == GameConfigSchemaIssues(yamlData)
      errors == validateGameConfigSemantics(yamlData)
  IN IF issues /= << >>
     THEN Threw(ConfigValidationError("Config validation failed", issues),
                << "zod" >>)
     ELSE IF errors /= << >>
     THEN Threw(ConfigValidationError(
                  "Game config semantic validation failed", errors),
                << "zod", "semantics" >>)
     ELSE Returned(yamlData, << "zod", "semantics" >>)

\* ------------------------------------------------------------------ App.tsx
\* most rounds of a game played in the App
MaxAppRounds == 2
\* the total a forged link claims for player 1
ForgedTotal == 9

\* useState<GameState | null>(null)
NoState == [null |-> TRUE]

\* the configurations the App is started with
AppConfigs ==
  { GameConfig("rock-paper-scissors", "1.0.0", t, p, a) :
      t \in 1 .. MaxAppRounds, p \in Players, a \in BOOLEAN }

\* the ids of the choices a DynamicChoiceBoard offers
BoardChoices(cfg) == { cfg.choices[i].id : i \in 1 .. Len(cfg.choices) }


\* btoa(JSON.stringify(gameState)): the link carries the fields of the
\* state and the content of its round history
EncodeState(gs, heap) ==
  [fmt |-> "b64json",
   doc |-> [currentRound |-> gs.currentRound,
            player1Choice |-> gs.player1Choice,
            player2Choice |-> gs.player2Choice,
            player1Total |-> gs.player1Total,
            player2Total |-> gs.player2Total,
            rounds |-> heap[gs.rounds],
            flowState |-> gs.flowState,
            whoWentFirst |-> gs.whoWentFirst,
            pendingResultsForRound |-> gs.pendingResultsForRound]]

EmptyHash == [fmt |-> "empty"]

\* JSON.parse(atob(hash)): atob throws on text that is not base64 (the '.'
\* of a signed token is not), JSON.parse on text that is not JSON
ParseHash(h) ==
  IF h.fmt = "b64json" THEN [ok |-> TRUE, doc |-> h.doc]
  ELSE [ok |-> FALSE]

\* the flow marker the load effect gives a decoded state that has none
InferFlowState(doc) ==
  IF Truthy(doc.player1Choice) /\ Truthy(doc.player2Choice)
  THEN "waiting_second"
  ELSE IF Truthy(doc.player1Choice) \/ Truthy(doc.player2Choice)
  THEN "waiting_second"
  ELSE "waiting_first"

\* the decoded state the load effect hands to setUrlState and setGameState;
\* its round history is the array at reference ref
DecodedState(doc, ref) ==
  [null |-> FALSE,
   currentRound |-> doc.currentRound,
   player1Choice |-> doc.player1Choice,
   player2Choice |-> doc.player2Choice,
   player1Total |-> doc.player1Total,
   player2Total |-> doc.player2Total,
   rounds |-> ref,
   flowState |-> IF Truthy(doc.flowState) THEN doc.flowState
                 ELSE InferFlowState(doc),
   whoWentFirst |-> IF Truthy(doc.flowState) THEN doc.whoWentFirst ELSE 1,
   pendingResultsForRound |-> doc.pendingResultsForRound]

\* isComplete of the variant that moves currentRound when a round resolves:
\* complete once currentRound is past the last round
IsComplete_RoundPastLast(cfg, gs, us) ==
  /\ ~ gs.null
  /\ gs.currentRound > cfg.progression.totalRounds

\* const isComplete = ...
IsComplete(cfg, gs, us) ==
  /\ ~ gs.null
  /\ gs.flowState = "results_and_next"
  /\ gs.currentRound >= cfg.progression.totalRounds
  /\ ~ us.null

\* const winner = ... of the Game Over view
Winner(gs) ==
  IF gs.player1Total > gs.player2Total THEN "Player 1"
  ELSE IF gs.player2Total > gs.player1Total THEN "Player 2"
  ELSE "Tie"

\* the player whose choice board the round-in-progress view shows, 0 when
\* it shows none
OfferedPlayer(cfg, gs, us) ==
  IF ~ Truthy(gs.player1Choice) /\ ~ Truthy(gs.player2Choice)
  THEN determineRoundStarter(cfg, gs.currentRound)
  ELSE IF Truthy(gs.player1Choice) /\ ~ Truthy(gs.player2Choice)
  THEN (IF ~ us.null THEN 2 ELSE 0)
  ELSE IF ~ Truthy(gs.player1Choice) /\ Truthy(gs.player2Choice)
  THEN (IF ~ us.null THEN 1 ELSE 0)
  ELSE 0

\* a results view that offers a next round after the last one as well
OffersNextChoice_AfterLast(cfg, gs) ==
  /\ gs.flowState = "results_and_next"
  /\ TruthyNum(gs.pendingResultsForRound)
  /\ gs.currentRound <= cfg.progression.totalRounds

\* the results view offers the first choice of the next round
OffersNextChoice(cfg, gs) ==
  /\ gs.flowState = "results_and_next"
  /\ TruthyNum(gs.pendingResultsForRound)
  /\ gs.currentRound < cfg.progression.totalRounds

\* ------------------------------------------------------------------ state
VARIABLES
  \* codec pipeline: where the token is on its way from sender to receiver
  pc,
  \* the snapshot handed to encryptGameState, and whether there is one
  snapshot, hasSnapshot,
  \* the payload that was signed
  payload,
  \* the token as produced by encodeSignedData (empty when forged)
  sent,
  \* the token as it reaches decodeSignedData
  token,
  \* what decodeSignedData did, what decryptGameState did
  decoded, decrypted,
  \* the loaded configuration
  config,
  \* the engine function last called, its arguments and what it returned
  fn, arg, ret,
  \* App: the two React states, the round-history arrays they refer to,
  \* and window.location.hash
  gameState, urlState, arrays, hash,
  \* the module-level schemaCache Map of the schema generator, and the
  \* number of schema objects getGameSchemas has built so far
  schemaCache, generated

codecVars == << pc, snapshot, hasSnapshot, payload, sent, token,
                decoded, decrypted >>
engineVars == << fn, arg, ret >>
appVars == << gameState, urlState, arrays, hash >>
cacheVars == << schemaCache, generated >>
nonCodecVars == << config, engineVars, appVars, cacheVars >>
vars == << codecVars, nonCodecVars >>

AppIdle ==
  /\ gameState = NoState
  /\ urlState = NoState
  /\ arrays = << >>
  /\ hash = EmptyHash

\* const schemaCache = new Map()
CacheIdle ==
  /\ schemaCache = << >>
  /\ generated = 0

NotCalled == Threw(UNDEF, << >>)

EngineIdle ==
  /\ fn = "none"
  /\ arg = [none |-> TRUE]
  /\ ret = [none |-> TRUE]

CodecIdle ==
  /\ pc = "start"
  /\ snapshot = [currentRound |-> 1, rounds |-> << >>]
  /\ hasSnapshot = FALSE
  /\ payload = << >>
  /\ sent = << >>
  /\ token = << >>
  /\ decoded = NotCalled
  /\ decrypted = NotCalled

\* ------------------------------------------------------ codec pipeline
\* the sender encrypts a snapshot
EncryptGameState(s, salt) ==
  /\ pc = "start"
  /\ snapshot' = s
  /\ hasSnapshot' = TRUE
  /\ payload' = encryptGameState(s, salt)
  /\ pc' = "encrypted"
  /\ UNCHANGED << sent, token, decoded, decrypted, nonCodecVars >>

\* a holder of the embedded secret signs a payload of their own making
ChoosePayload(p) ==
  /\ pc = "start"
  /\ payload' = p
  /\ pc' = "encrypted"
  /\ UNCHANGED << snapshot, hasSnapshot, sent, token, decoded, decrypted,
                  nonCodecVars >>

SignAndEncode ==
  /\ pc = "encrypted"
  /\ sent' = encodeSignedData(signData(payload))
  /\ token' = sent'
  /\ pc' = "signed"
  /\ UNCHANGED << snapshot, hasSnapshot, payload, decoded, decrypted,
                  nonCodecVars >>

\* one character of the token is replaced on the way
Tamper(i, c) ==
  /\ pc = "signed"
  /\ token = sent
  /\ sent /= << >>
  /\ i \in 1 .. Len(token)
  /\ c /= token[i]
  /\ token' = [token EXCEPT ![i] = c]
  /\ UNCHANGED << pc, snapshot, hasSnapshot, payload, sent, decoded,
                  decrypted, nonCodecVars >>

TamperToken == \E i \in 1 .. Len(token), c \in TokenChars : Tamper(i, c)

\* the receiver is handed a token nobody signed
Forge(t) ==
  /\ pc = "start"
  /\ token' = t
  /\ pc' = "signed"
  /\ UNCHANGED << snapshot, hasSnapshot, payload, sent, decoded, decrypted,
                  nonCodecVars >>

\* const encrypted = decodeSignedData(urlParam)
DecodeSignedData ==
  /\ pc = "signed"
  /\ decoded' = decodeSignedData(token)
  /\ pc' = "decoded"
  /\ UNCHANGED << snapshot, hasSnapshot, payload, sent, token, decrypted,
                  nonCodecVars >>

\* const gameState = decryptGameState(encrypted): reached only when
\* decodeSignedData returned
DecryptGameState ==
  /\ pc = "decoded"
  /\ decoded.ok
  /\ decrypted' = decryptGameState(decoded.value)
  /\ pc' = "decrypted"
  /\ UNCHANGED << snapshot, hasSnapshot, payload, sent, token, decoded,
                  nonCodecVars >>

RawPayloads == SeqsOf(TokenChars, 1, MaxRawLen)
ForgedTokens == SeqsOf(TokenChars, 0, MaxForgedLen)

CodecNext ==
  \/ \E s \in CodecSnapshots, salt \in 0 .. MaxSalt : EncryptGameState(s, salt)
  \/ \E p \in RawPayloads : ChoosePayload(p)
  \/ SignAndEncode
  \/ TamperToken
  \/ \E t \in ForgedTokens : Forge(t)
  \/ DecodeSignedData
  \/ DecryptGameState

CodecInit == CodecIdle /\ EngineIdle /\ AppIdle /\ CacheIdle /\ config = RpsConfig

SpecCodec == CodecInit /\ [][CodecNext]_vars

\* ----------------------------------------------------- codec properties
DecodeRan == pc \in { "decoded", "decrypted" }
HasDot(t) == \E i \in 1 .. Len(t) : t[i] = DOT
\* the token is data '.' signature with the '.' at k and none after it
SplitsAt(t, k) ==
  /\ k \in 1 .. Len(t)
  /\ t[k] = DOT
  /\ \A j \in (k + 1) .. Len(t) : t[j] /= DOT
\* the token is an untouched product of encodeSignedData(signData(payload))
Untouched == sent /= << >> /\ token = sent
\* exactly one character of a signed token was replaced, not the separator
TamperedPart ==
  /\ sent /= << >>
  /\ token /= sent
  /\ token[Len(payload) + 1] = sent[Len(payload) + 1]
\* the data the receiver splits off does not collide with the signed payload
NoCollision ==
  \A k \in 1 .. Len(token) :
    (SplitsAt(token, k) /\ SubSeq(token, 1, k - 1) /= payload)
      => generateHMAC(SubSeq(token, 1, k - 1)) /= generateHMAC(payload)

\* C1: the tag is checked before any decryption: decodeSignedData throws on
\* a tag mismatch, returns the payload only when the recomputed tag equals
\* the supplied one, and decryptGameState runs on such a payload only.
C1_TagCheckedBeforeDecryption ==
  /\ (DecodeRan /\ decoded.ok) =>
       \E k \in 1 .. Len(token) :
         /\ SplitsAt(token, k)
         /\ decoded.value = SubSeq(token, 1, k - 1)
         /\ generateHMAC(decoded.value) = SubSeq(token, k + 1, Len(token))
  /\ \A k \in 2 .. (Len(token) - 1) :
       (DecodeRan /\ SplitsAt(token, k)
        /\ generateHMAC(SubSeq(token, 1, k - 1))
             /= SubSeq(token, k + 1, Len(token)))
         => (~ decoded.ok /\ decoded.error = HMACError("verification failed"))
  /\ decrypted.log /= << >> => (DecodeRan /\ decoded.ok)

\* C1 witness: a token with a wrong tag was turned down and never decrypted
C1_Witness ==
  /\ pc = "decoded"
  /\ ~ decoded.ok
  /\ decoded.error = HMACError("verification failed")
  /\ decrypted.log = << >>

\* C2 as stated: every single-character replacement in the payload part or
\* the tag part of a signed token makes decodeSignedData fail with the
\* integrity error, the keyed hash having no collision.
C2_TamperIsIntegrityError ==
  (DecodeRan /\ TamperedPart /\ NoCollision)
    => (~ decoded.ok /\ decoded.error = HMACError("verification failed"))

\* C2 amended: every such replacement makes decodeSignedData fail and never
\* return a payload; the failure is the integrity error, except that a
\* separator written over the last character of the tag leaves an empty
\* signature and fails with the malformed-token error.
C2_TamperFails ==
  (DecodeRan /\ TamperedPart /\ NoCollision)
    => /\ ~ decoded.ok
       /\ decoded.error =
            IF token[Len(token)] = DOT
            THEN HMACError("empty data or signature")
            ELSE HMACError("verification failed")

\* C2 witness: the last tag character of a signed token became a separator
C2_Witness ==
  /\ pc = "decoded"
  /\ TamperedPart
  /\ NoCollision
  /\ token[Len(token)] = DOT

\* C4: decryptGameState(encryptGameState(s)) is s, field by field and with
\* the round history in its order.
C4_RoundTrip ==
  (pc = "decrypted" /\ hasSnapshot /\ Untouched)
    => /\ decrypted.ok
       /\ decrypted.value.currentRound = snapshot.currentRound
       /\ decrypted.value.rounds = snapshot.rounds

\* C4 witness: a snapshot with two different rounds went through the codec
C4_Witness ==
  /\ pc = "decrypted"
  /\ hasSnapshot
  /\ Untouched
  /\ Len(snapshot.rounds) = 2
  /\ snapshot.rounds[1] /= snapshot.rounds[2]

\* C5: a token without separator, or with nothing before or after its last
\* separator, fails with a malformed-token error and no tag is computed.
C5_MalformedToken ==
  (DecodeRan /\ (\/ ~ HasDot(token)
                 \/ SplitsAt(token, 1)
                 \/ SplitsAt(token, Len(token))))
    => /\ ~ decoded.ok
       /\ decoded.error \in { HMACError("missing signature separator"),
                              HMACError("empty data or signature") }
       /\ \A i \in 1 .. Len(decoded.log) : decoded.log[i] /= "hmac"

\* C5 witness: a token that ends in its separator was decoded
C5_Witness ==
  /\ pc = "decoded"
  /\ Len(token) > 1
  /\ SplitsAt(token, Len(token))

\* C6: decodeSignedData(encodeSignedData(signData(p))) returns p for every
\* non-empty p, also when p contains the separator character.
C6_SeparatorUnambiguous ==
  (DecodeRan /\ Untouched /\ payload /= << >>)
    => (decoded.ok /\ decoded.value = payload)

\* C6 witness: a payload containing the separator was signed and decoded
C6_Witness ==
  /\ pc = "decoded"
  /\ Untouched
  /\ HasDot(payload)
  /\ decoded.ok

\* C7 as stated: decryptGameState fails with a decryption error when
\* decryption yields nothing and with a decompression error when
\* decompression yields nothing, and a failed stage is the last one to run.
C7_StageErrors ==
  (pc = "decrypted" /\ ~ decrypted.ok) =>
    LET last == decrypted.log[Len(decrypted.log)]
    IN /\ last = "decrypt" =>
            decrypted.error = Error("Decryption produced empty result")
       /\ last = "decompress" =>
            decrypted.error = Error("Decompression produced empty result")

\* ------------------------------------------------------- engine calls
\* One call of a pure function per behaviour: the arguments are drawn, the
\* function is applied, and fn, arg, ret record the call.
\* gameStateSchema.safeParse(s) with the schema generated for the
\* loaded configuration
SafeParseGameState(s) ==
  /\ fn = "none"
  /\ fn' = "safeParse"
  /\ arg' = [snapshot |-> s]
  /\ ret' = generateGameStateSchema(config, s)
  /\ UNCHANGED << codecVars, config, appVars, cacheVars >>

DetermineRoundStarter(r) ==
  /\ fn = "none"
  /\ fn' = "determineRoundStarter"
  /\ arg' = [roundNumber |-> r]
  /\ ret' = [value |-> determineRoundStarter(config, r)]
  /\ UNCHANGED << codecVars, config, appVars, cacheVars >>

DetermineNextPlayer(r, p1, p2) ==
  /\ fn = "none"
  /\ fn' = "determineNextPlayer"
  /\ arg' = [roundNumber |-> r, player1Choice |-> p1, player2Choice |-> p2]
  /\ ret' = determineNextPlayer(config, r, p1, p2)
  /\ UNCHANGED << codecVars, config, appVars, cacheVars >>

\* isGameComplete(currentRound, totalRounds, isRoundComplete(p1, p2))
IsGameComplete(cr, tr, p1, p2) ==
  /\ fn = "none"
  /\ fn' = "isGameComplete"
  /\ arg' = [currentRound |-> cr, totalRounds |-> tr,
             player1Choice |-> p1, player2Choice |-> p2]
  /\ ret' = [value |-> isGameComplete(cr, tr, isRoundComplete(p1, p2))]
  /\ UNCHANGED << codecVars, config, appVars, cacheVars >>

CanPlayerMove(cr, player, p1, p2) ==
  /\ fn = "none"
  /\ fn' = "canPlayerMove"
  /\ arg' = [currentRound |-> cr, player |-> player,
             player1Choice |-> p1, player2Choice |-> p2]
  /\ ret' = [value |-> canPlayerMove(config, cr, player, p1, p2)]
  /\ UNCHANGED << codecVars, config, appVars, cacheVars >>

\* what a player's choice of the round holds while the engine is asked
PendingChoices == { UNDEF, "rock", "paper" }

\* a snapshot arrives and is parsed
ParseSomeGameState ==
  /\ fn = "none"
  /\ \E s \in Snapshots(config), tr \in 1 .. MaxTotalRounds :
       SafeParseGameState([s EXCEPT !.totalRounds = tr])

\* the starter of some round is asked for
AskRoundStarter ==
  /\ fn = "none"
  /\ \E r \in 1 .. MaxRoundNumber : DetermineRoundStarter(r)

\* the player to act next is asked for
AskNextPlayer ==
  /\ fn = "none"
  /\ \E r \in 1 .. MaxRoundNumber, p1 \in PendingChoices,
        p2 \in PendingChoices : DetermineNextPlayer(r, p1, p2)

\* the end of the game is asked for
AskGameComplete ==
  /\ fn = "none"
  /\ \E cr \in 1 .. MaxRoundNumber, tr \in 1 .. MaxTotalRounds,
        p1 \in PendingChoices, p2 \in PendingChoices :
          IsGameComplete(cr, tr, p1, p2)

\* a player asks whether they may move
AskCanPlayerMove ==
  /\ fn = "none"
  /\ \E cr \in 1 .. MaxRoundNumber, player \in Players,
        p1 \in PendingChoices, p2 \in PendingChoices :
          CanPlayerMove(cr, player, p1, p2)

EngineNext ==
  \/ ParseSomeGameState
  \/ AskRoundStarter
  \/ AskNextPlayer
  \/ AskGameComplete
  \/ AskCanPlayerMove

EngineInit == CodecIdle /\ EngineIdle /\ AppIdle /\ CacheIdle /\ config \in Configs

SpecEngine == EngineInit /\ [][EngineNext]_vars

\* ---------------------------------------------------- engine properties
\* every field of the snapshot but currentRound satisfies the schema
OthersValid == ret.issues \subseteq { "currentRound" }

\* C8: the schema generated for a configuration rejects every snapshot
\* whose gameType is not metadata.id or whose gameVersion is not
\* metadata.version, whatever the other fields are.
C8_ForeignStampRejected ==
  (fn = "safeParse"
   /\ (\/ arg.snapshot.gameType /= config.metadata.id
       \/ arg.snapshot.gameVersion /= config.metadata.version))
    => ~ ret.success

\* C8 witness: a snapshot that is valid but for the version of another
\* configuration was parsed
C8_Witness ==
  /\ fn = "safeParse"
  /\ arg.snapshot.gameType = config.metadata.id
  /\ arg.snapshot.gameVersion \in GameVersions \ { config.metadata.version }
  /\ ret.issues = { "gameVersion" }

\* C9 as stated: the schema accepts currentRound exactly when it is an
\* integer from 1 to totalRounds + 1.
C9_RoundUpToFinished ==
  fn = "safeParse" =>
    LET accepted == "currentRound" \notin ret.issues
        inRange ==
          /\ arg.snapshot.currentRound[2] = 0
          /\ arg.snapshot.currentRound[1]
               \in 1 .. (config.progression.totalRounds + 1)
    IN /\ accepted <=> inRange
       /\ OthersValid => (ret.success <=> inRange)

\* C9 amended: the schema accepts currentRound exactly when it is an
\* integer from 1 to totalRounds; totalRounds + 1 is rejected.
C9_RoundWithinTotal ==
  fn = "safeParse" =>
    LET accepted == "currentRound" \notin ret.issues
        inRange ==
          /\ arg.snapshot.currentRound[2] = 0
          /\ arg.snapshot.currentRound[1]
               \in 1 .. config.progression.totalRounds
    IN /\ accepted <=> inRange
       /\ OthersValid => (ret.success <=> inRange)

\* C9 witness: a snapshot whose only flaw is currentRound = totalRounds + 1
C9_Witness ==
  /\ fn = "safeParse"
  /\ arg.snapshot.currentRound = Num(config.progression.totalRounds + 1)
  /\ ret.issues = { "currentRound" }

\* C10: determineRoundStarter returns the starting player in every round
\* without alternation, and with alternation the starting player in odd
\* rounds and the opponent in even rounds (1,2,1,2 from player 1).
C10_RoundStarter ==
  fn = "determineRoundStarter" =>
    LET r == arg.roundNumber
        first == config.progression.startingPlayer
        odd == \E k \in 0 .. r : r = 2 * k + 1
    IN /\ ~ config.progression.alternateStarter => ret.value = first
       /\ (config.progression.alternateStarter /\ odd) => ret.value = first
       /\ (config.progression.alternateStarter /\ ~ odd)
            => (ret.value \in Players /\ ret.value /= first)
       /\ (config.progression.alternateStarter /\ first = 1 /\ r <= 4)
            => ret.value = << 1, 2, 1, 2 >>[r]

\* C10 witness: an even round of an alternating game that player 2 began
C10_Witness ==
  /\ fn = "determineRoundStarter"
  /\ config.progression.alternateStarter
  /\ config.progression.startingPlayer = 2
  /\ arg.roundNumber = 4
  /\ ret.value = 1

\* C11: determineNextPlayer agrees with determineRoundStarter: the starter
\* of the round while neither choice is set, the starter's opponent when
\* only the starter's choice is set (player 1 when player 2 started and only
\* player2Choice is set), and no player when both choices are set.
C11_NextPlayer ==
  fn = "determineNextPlayer" =>
    LET starter == determineRoundStarter(config, arg.roundNumber)
        opponent == IF starter = 1 THEN 2 ELSE 1
        set1 == arg.player1Choice /= UNDEF
        set2 == arg.player2Choice /= UNDEF
        starterSet == IF starter = 1 THEN set1 ELSE set2
        opponentSet == IF starter = 1 THEN set2 ELSE set1
    IN /\ (~ set1 /\ ~ set2) => ret = SomePlayer(starter)
       /\ (starterSet /\ ~ opponentSet) => ret = SomePlayer(opponent)
       /\ (starter = 2 /\ set2 /\ ~ set1) => ret = SomePlayer(1)
       /\ (set1 /\ set2) => ret.none

\* C11 witness: player 2 started the round and is the only one who chose
C11_Witness ==
  /\ fn = "determineNextPlayer"
  /\ determineRoundStarter(config, arg.roundNumber) = 2
  /\ arg.player1Choice = UNDEF
  /\ arg.player2Choice = "rock"
  /\ ret = SomePlayer(1)

\* C17: isGameComplete is true exactly when currentRound equals totalRounds
\* and both choices of the round are known; it is false in every earlier
\* round and while the final round lacks a choice.
C17_GameComplete ==
  fn = "isGameComplete" =>
    LET bothKnown == arg.player1Choice /= UNDEF /\ arg.player2Choice /= UNDEF
    IN /\ ret.value <=> (arg.currentRound = arg.totalRounds /\ bothKnown)
       /\ arg.currentRound < arg.totalRounds => ~ ret.value
       /\ ~ bothKnown => ~ ret.value

\* C17 witness: the final round with both choices known, and a round past
\* the final one is not this state
C17_Witness ==
  /\ fn = "isGameComplete"
  /\ arg.currentRound = arg.totalRounds
  /\ arg.player1Choice /= UNDEF
  /\ arg.player2Choice /= UNDEF
  /\ ret.value

\* ------------------------------------------------------ loader pipeline
\* The documents handed to loadGameConfig: config holds the parsed YAML.
\* lists of choice ids: two and three choices, a repeated id, a single
\* choice, an empty id, an id with the ':' of the combination key in it
DocChoiceLists ==
  { << "rock", "paper" >>, << "rock", "paper", "scissors" >>,
    << "rock", "rock" >>, << "rock" >>, << "rock", "" >>,
    << "a", "a:a" >> }

RuleFor(a, b) ==
  [condition |-> [player1 |-> a, player2 |-> b],
   outcome |-> [player1 |-> Score(a, b), player2 |-> Score(b, a)]]

\* one rule per ordered pair of positions of the list
FullTable(ids) ==
  [k \in 1 .. (Len(ids) * Len(ids)) |->
     RuleFor(ids[((k - 1) \div Len(ids)) + 1], ids[((k - 1) % Len(ids)) + 1])]

RemoveAt(seq, k) ==
  [i \in 1 .. (Len(seq) - 1) |-> IF i < k THEN seq[i] ELSE seq[i + 1]]

\* the payoff tables somebody may write for a list of choice ids: the full
\* one, one rule removed, one rule written twice, one rule written over
\* another, a rule for an id that is no choice, no rule at all, and for two
\* choices every table that is one rule short, of the right size or one
\* rule long
DocTables(ids) ==
  LET full == FullTable(ids)
      n == Len(full)
  IN { full, << >> }
     \cup { RemoveAt(full, k) : k \in 1 .. n }
     \cup { Append(full, full[k]) : k \in 1 .. n }
     \cup { [full EXCEPT ![k] = full[j]] : k \in 1 .. n, j \in 1 .. n }
     \cup { [full EXCEPT ![k].condition.player2 = "lizard"] : k \in 1 .. n }
     \cup (IF Len(ids) = 2
           THEN SeqsOf({ RuleFor(ids[i], ids[j]) :
                           i \in 1 .. Len(ids), j \in 1 .. Len(ids) },
                       n - 1, n + 1)
           ELSE { })

Document(ids, rules, totalRounds) ==
  [metadata |-> [id |-> "rock-paper-scissors", version |-> "1.0.0"],
   choices |-> [i \in 1 .. Len(ids) |-> [id |-> ids[i]]],
   payoffRules |-> rules,
   progression |-> [totalRounds |-> totalRounds,
                    startingPlayer |-> 1,
                    alternateStarter |-> TRUE]]

Documents ==
  UNION { { Document(ids, rules, t) :
              rules \in DocTables(ids), t \in { 0, MaxTotalRounds } } :
          ids \in DocChoiceLists }

\* the ids a caller may hand to calculatePayoff
CallChoiceIds(cfg) ==
  { cfg.choices[i].id : i \in 1 .. Len(cfg.choices) } \cup { "lizard" }

\* const config = loadGameConfig(yamlData)
LoadGameConfig ==
  /\ fn = "none"
  /\ fn' = "loadGameConfig"
  /\ arg' = [yamlData |-> config]
  /\ ret' = loadGameConfig(config)
  /\ UNCHANGED << codecVars, config, appVars, cacheVars >>

\* buildPayoffMatrix(config) on the configuration loadGameConfig returned
BuildPayoffMatrix ==
  /\ fn = "loadGameConfig"
  /\ ret.ok
  /\ fn' = "buildPayoffMatrix"
  /\ arg' = [config |-> ret.value]
  /\ ret' = [matrix |-> buildPayoffMatrix(ret.value)]
  /\ UNCHANGED << codecVars, config, appVars, cacheVars >>

\* calculatePayoff(config, a, b) on the configuration loadGameConfig
\* returned
CalculatePayoff(a, b) ==
  /\ fn = "loadGameConfig"
  /\ ret.ok
  /\ fn' = "calculatePayoff"
  /\ arg' = [config |-> ret.value, validated |-> TRUE,
             player1Choice |-> a, player2Choice |-> b]
  /\ ret' = calculatePayoff(ret.value, a, b)
  /\ UNCHANGED << codecVars, config, appVars, cacheVars >>

\* calculatePayoff(config, a, b) on an object that was cast to GameConfig
\* and never went through loadGameConfig
CalculatePayoffUnvalidated(a, b) ==
  /\ fn = "none"
  /\ fn' = "calculatePayoff"
  /\ arg' = [config |-> config, validated |-> FALSE,
             player1Choice |-> a, player2Choice |-> b]
  /\ ret' = calculatePayoff(config, a, b)
  /\ UNCHANGED << codecVars, config, appVars, cacheVars >>

AskPayoff ==
  /\ fn = "loadGameConfig"
  /\ ret.ok
  /\ \E a \in CallChoiceIds(ret.value), b \in CallChoiceIds(ret.value) :
       CalculatePayoff(a, b)

AskPayoffUnvalidated ==
  /\ fn = "none"
  /\ \E a \in CallChoiceIds(config), b \in CallChoiceIds(config) :
       CalculatePayoffUnvalidated(a, b)

LoaderNext ==
  \/ LoadGameConfig
  \/ BuildPayoffMatrix
  \/ AskPayoff
  \/ AskPayoffUnvalidated

LoaderInit == CodecIdle /\ EngineIdle /\ AppIdle /\ CacheIdle /\ config \in Documents

SpecLoader == LoaderInit /\ [][LoaderNext]_vars

\* ---------------------------------------------------- loader properties
ChoiceIdsOf(cfg) == { cfg.choices[i].id : i \in 1 .. Len(cfg.choices) }
RulesFor(cfg, a, b) ==
  { k \in 1 .. Len(cfg.payoffRules) :
      /\ cfg.payoffRules[k].condition.player1 = a
      /\ cfg.payoffRules[k].condition.player2 = b }
InvalidChoiceMessages ==
  { "Invalid choice for player 1", "Invalid choice for player 2" }

\* C12: calculatePayoff fails with the invalid-choice error when one of the
\* two ids is no choice of the configuration, and with the different
\* no-matching-rule error when both are choices but no rule has the pair
\* for its condition; it returns no scores in either case.
C12_PayoffErrors ==
  fn = "calculatePayoff" =>
    LET ids == ChoiceIdsOf(arg.config)
        a == arg.player1Choice
        b == arg.player2Choice
    IN /\ (a \notin ids \/ b \notin ids)
            => /\ ~ ret.ok
               /\ ret.error.name = "PayoffCalculationError"
               /\ ret.error.message \in InvalidChoiceMessages
       /\ (a \in ids /\ b \in ids /\ RulesFor(arg.config, a, b) = { })
            => /\ ~ ret.ok
               /\ ret.error.name = "PayoffCalculationError"
               /\ ret.error.message = "No payoff rule found for combination"
               /\ ret.error.message \notin InvalidChoiceMessages

\* C12 witness: two choices of a table that lacks their rule
C12_Witness ==
  /\ fn = "calculatePayoff"
  /\ arg.player1Choice \in ChoiceIdsOf(arg.config)
  /\ arg.player2Choice \in ChoiceIdsOf(arg.config)
  /\ RulesFor(arg.config, arg.player1Choice, arg.player2Choice) = { }
  /\ ~ ret.ok

\* C13: a configuration that loadGameConfig returns has pairwise distinct
\* choice ids, exactly one payoff rule for every ordered pair of its choice
\* ids, and no payoff rule that names an id outside its choices.
C13_AcceptedConfigIsComplete ==
  (fn = "loadGameConfig" /\ ret.ok) =>
    LET cfg == ret.value
        ids == ChoiceIdsOf(cfg)
    IN /\ \A i, j \in 1 .. Len(cfg.choices) :
            cfg.choices[i].id = cfg.choices[j].id => i = j
       /\ \A a, b \in ids : Cardinality(RulesFor(cfg, a, b)) = 1
       /\ \A k \in 1 .. Len(cfg.payoffRules) :
            /\ cfg.payoffRules[k].condition.player1 \in ids
            /\ cfg.payoffRules[k].condition.player2 \in ids

\* C13 witness: the three-choice configuration was accepted
C13_Witness ==
  /\ fn = "loadGameConfig"
  /\ ret.ok
  /\ Len(ret.value.choices) = 3

\* the pairs of choice ids whose rule, put back, makes loadGameConfig accept
\* the document: the document is an accepted configuration less that rule
MissingPairs(d) ==
  { pair \in ChoiceIdsOf(d) \X ChoiceIdsOf(d) :
      loadGameConfig([d EXCEPT !.payoffRules =
                        Append(@, RuleFor(pair[1], pair[2]))]).ok }

\* the entry quotes the pair (a, b)
NamesPair(entry, a, b) == entry.ids = << a, b >>

\* C14 as stated: a document that is an accepted configuration less one
\* payoff rule is rejected with a ConfigValidationError, and one entry of
\* its errors list names the pair of choices that lost its rule.
C14_MissingPairNamed ==
  fn = "loadGameConfig" =>
    \A pair \in MissingPairs(arg.yamlData) :
      /\ ~ ret.ok
      /\ ret.error.name = "ConfigValidationError"
      /\ \E i \in 1 .. Len(ret.error.errors) :
           NamesPair(ret.error.errors[i], pair[1], pair[2])

\* the four classes of violation, read off the document
HasStructuralViolation(d) ==
  \/ Len(d.choices) < 2
  \/ \E i \in 1 .. Len(d.choices) : d.choices[i].id = ""
  \/ Len(d.payoffRules) < 1
  \/ d.progression.totalRounds < 1
HasUnknownChoice(d) ==
  \E k \in 1 .. Len(d.payoffRules) :
    \/ d.payoffRules[k].condition.player1 \notin ChoiceIdsOf(d)
    \/ d.payoffRules[k].condition.player2 \notin ChoiceIdsOf(d)
HasDuplicateRule(d) ==
  \E j, k \in 1 .. Len(d.payoffRules) :
    j /= k /\ d.payoffRules[j].condition = d.payoffRules[k].condition
HasWrongSize(d) == Len(d.payoffRules) /= Len(d.choices) * Len(d.choices)
Lists(class) ==
  /\ ~ ret.ok
  /\ \E i \in 1 .. Len(ret.error.errors) : ret.error.errors[i].class = class

\* C15 as stated: one ConfigValidationError lists every class of violation
\* the document has, also when an earlier class of check has failed.
C15_AllClassesReported ==
  fn = "loadGameConfig" =>
    /\ HasStructuralViolation(arg.yamlData) => Lists("structure")
    /\ HasUnknownChoice(arg.yamlData) => Lists("unknown")
    /\ HasDuplicateRule(arg.yamlData) => Lists("duplicate")
    /\ HasWrongSize(arg.yamlData) => Lists("size")

\* what holds of C15: the three semantic classes are reported together
\* whenever the document has no structural violation
C15_SemanticClassesReported ==
  (fn = "loadGameConfig" /\ ~ HasStructuralViolation(arg.yamlData)) =>
    /\ HasUnknownChoice(arg.yamlData) => Lists("unknown")
    /\ HasDuplicateRule(arg.yamlData) => Lists("duplicate")
    /\ HasWrongSize(arg.yamlData) => Lists("size")

\* C16: for a configuration that loadGameConfig accepted, buildPayoffMatrix
\* returns a grid of n rows of n cells, the cell [i][j] carrying the scores
\* of the rule for (choices[i].id, choices[j].id), and no cell is the
\* zero-score fallback.
C16_MatrixOfAcceptedConfig ==
  fn = "buildPayoffMatrix" =>
    LET cfg == arg.config
        n == Len(cfg.choices)
        m == ret.matrix
    IN /\ Len(m) = n
       /\ \A i \in 1 .. n :
            /\ Len(m[i]) = n
            /\ \A j \in 1 .. n :
                 /\ m[i][j].outcomeText /= "Invalid combination"
                 /\ m[i][j].player1Choice = cfg.choices[i].id
                 /\ m[i][j].player2Choice = cfg.choices[j].id
                 /\ \E k \in RulesFor(cfg, cfg.choices[i].id,
                                       cfg.choices[j].id) :
                      /\ m[i][j].player1Score
                           = cfg.payoffRules[k].outcome.player1
                      /\ m[i][j].player2Score
                           = cfg.payoffRules[k].outcome.player2

\* C16 witness: the grid of the three-choice configuration, rock against
\* scissors in its first row
C16_Witness ==
  /\ fn = "buildPayoffMatrix"
  /\ Len(ret.matrix) = 3
  /\ ret.matrix[1][3].player1Score = 1
  /\ ret.matrix[1][3].player2Score = 0 - 1

\* ------------------------------------------------------------ App handlers
\* smallest array reference that none of the references in keep uses
NewArrayRef(keep) == CHOOSE n \in 1 .. (Cardinality(keep) + 1) :
                       n \notin keep /\ \A m \in 1 .. (n - 1) : m \in keep

\* the newGame object of startNewGame, its history at reference ref
NewGame(ref) ==
  [null |-> FALSE,
   currentRound |-> 1,
   player1Choice |-> UNDEF,
   player2Choice |-> UNDEF,
   player1Total |-> 0,
   player2Total |-> 0,
   rounds |-> ref,
   flowState |-> "waiting_first",
   whoWentFirst |-> 1,
   pendingResultsForRound |-> 0]

\* makeChoice that resolves the round but leaves the flow marker alone
makeChoice_FlowKept(cfg, gs, heap, playerNum, choiceId) ==
  LET isFirstChoice ==
        ~ Truthy(gs.player1Choice) /\ ~ Truthy(gs.player2Choice)
      isSecondChoice ==
        \/ Truthy(gs.player1Choice) /\ ~ Truthy(gs.player2Choice)
        \/ ~ Truthy(gs.player1Choice) /\ Truthy(gs.player2Choice)
      chosen == IF playerNum = 1
                THEN [gs EXCEPT !.player1Choice = choiceId]
                ELSE [gs EXCEPT !.player2Choice = choiceId]
      payoff == calculatePayoff(cfg, chosen.player1Choice,
                                chosen.player2Choice)
      round == [player1Choice |-> chosen.player1Choice,
                player2Choice |-> chosen.player2Choice,
                player1Score |-> payoff.player1Score,
                player2Score |-> payoff.player2Score]
  IN IF isFirstChoice
     THEN [threw |-> FALSE,
           state |-> [chosen EXCEPT !.flowState = "waiting_second",
                                    !.whoWentFirst = playerNum],
           heap |-> heap]
     ELSE IF /\ isSecondChoice
             /\ Truthy(chosen.player1Choice)
             /\ Truthy(chosen.player2Choice)
     THEN IF ~ payoff.ok
          THEN [threw |-> TRUE, state |-> gs, heap |-> heap]
          ELSE [threw |-> FALSE,
                state |->
                  [chosen EXCEPT
                     !.player1Total = @ + payoff.player1Score,
                     !.player2Total = @ + payoff.player2Score,
                     !.pendingResultsForRound = chosen.currentRound],
                heap |-> [heap EXCEPT ![gs.rounds] = Append(@, round)]]
     ELSE [threw |-> FALSE, state |-> chosen, heap |-> heap]

\* makeChoice without the update of the two totals
makeChoice_TotalsKept(cfg, gs, heap, playerNum, choiceId) ==
  LET isFirstChoice ==
        ~ Truthy(gs.player1Choice) /\ ~ Truthy(gs.player2Choice)
      isSecondChoice ==
        \/ Truthy(gs.player1Choice) /\ ~ Truthy(gs.player2Choice)
        \/ ~ Truthy(gs.player1Choice) /\ Truthy(gs.player2Choice)
      chosen == IF playerNum = 1
                THEN [gs EXCEPT !.player1Choice = choiceId]
                ELSE [gs EXCEPT !.player2Choice = choiceId]
      payoff == calculatePayoff(cfg, chosen.player1Choice,
                                chosen.player2Choice)
      round == [player1Choice |-> chosen.player1Choice,
                player2Choice |-> chosen.player2Choice,
                player1Score |-> payoff.player1Score,
                player2Score |-> payoff.player2Score]
  IN IF isFirstChoice
     THEN [threw |-> FALSE,
           state |-> [chosen EXCEPT !.flowState = "waiting_second",
                                    !.whoWentFirst = playerNum],
           heap |-> heap]
     ELSE IF /\ isSecondChoice
             /\ Truthy(chosen.player1Choice)
             /\ Truthy(chosen.player2Choice)
     THEN IF ~ payoff.ok
          THEN [threw |-> TRUE, state |-> gs, heap |-> heap]
          ELSE [threw |-> FALSE,
                state |->
                  [chosen EXCEPT
                     !.pendingResultsForRound = chosen.currentRound,
                     !.flowState = "results_and_next"],
                heap |-> [heap EXCEPT ![gs.rounds] = Append(@, round)]]
     ELSE [threw |-> FALSE, state |-> chosen, heap |-> heap]

\* makeChoice(playerNum, choiceId) on state gs: the state it hands to
\* setGameState and the heap after it ran; threw when calculatePayoff
\* threw and nothing was set
makeChoice(cfg, gs, heap, playerNum, choiceId) ==
  LET isFirstChoice ==
        ~ Truthy(gs.player1Choice) /\ ~ Truthy(gs.player2Choice)
      isSecondChoice ==
        \/ Truthy(gs.player1Choice) /\ ~ Truthy(gs.player2Choice)
        \/ ~ Truthy(gs.player1Choice) /\ Truthy(gs.player2Choice)
      chosen == IF playerNum = 1
                THEN [gs EXCEPT !.player1Choice = choiceId]
                ELSE [gs EXCEPT !.player2Choice = choiceId]
      payoff == calculatePayoff(cfg, chosen.player1Choice,
                                chosen.player2Choice)
      round == [player1Choice |-> chosen.player1Choice,
                player2Choice |-> chosen.player2Choice,
                player1Score |-> payoff.player1Score,
                player2Score |-> payoff.player2Score]
  IN IF isFirstChoice
     THEN [threw |-> FALSE,
           state |-> [chosen EXCEPT !.flowState = "waiting_second",
                                    !.whoWentFirst = playerNum],
           heap |-> heap]
     ELSE IF /\ isSecondChoice
             /\ Truthy(chosen.player1Choice)
             /\ Truthy(chosen.player2Choice)
     THEN IF ~ payoff.ok
          THEN [threw |-> TRUE, state |-> gs, heap |-> heap]
          ELSE [threw |-> FALSE,
                state |->
                  [chosen EXCEPT
                     !.player1Total = @ + payoff.player1Score,
                     !.player2Total = @ + payoff.player2Score,
                     !.pendingResultsForRound = chosen.currentRound,
                     !.flowState = "results_and_next"],
                heap |-> [heap EXCEPT ![gs.rounds] = Append(@, round)]]
     ELSE [threw |-> FALSE, state |-> chosen, heap |-> heap]

\* makeNextChoiceAfterResults that leaves the round counter alone
makeNextChoiceAfterResults_NoAdvance(cfg, gs, choiceId) ==
  LET nextRound == gs.currentRound + 1
      nextStarter == determineRoundStarter(cfg, nextRound)
  IN [gs EXCEPT
        !.pendingResultsForRound = 0,
        !.player1Choice = IF nextStarter = 1 THEN choiceId ELSE UNDEF,
        !.player2Choice = IF nextStarter = 1 THEN UNDEF ELSE choiceId,
        !.flowState = "waiting_second",
        !.whoWentFirst = nextStarter]

makeNextChoiceAfterResults(cfg, gs, choiceId) ==
  LET nextRound == gs.currentRound + 1
      nextStarter == determineRoundStarter(cfg, nextRound)
  IN [gs EXCEPT
        !.currentRound = nextRound,
        !.pendingResultsForRound = 0,
        !.player1Choice = IF nextStarter = 1 THEN choiceId ELSE UNDEF,
        !.player2Choice = IF nextStarter = 1 THEN UNDEF ELSE choiceId,
        !.flowState = "waiting_second",
        !.whoWentFirst = nextStarter]

\* an update-URL effect that never writes the address bar
UpdateUrl_Stale(gs, us, heap, h) == h

\* the update-URL effect, run after every render that changed gameState or
\* urlState: the address bar h gets the encoded state unless the state came
\* from the URL
UpdateUrl(gs, us, heap, h) ==
  IF ~ gs.null /\ us.null THEN EncodeState(gs, heap) ELSE h

\* ------------------------------------------------------------- App actions
\* Start Game / New Game button, then the update-URL effect
StartNewGame ==
  /\ gameState.null \/ IsComplete(config, gameState, urlState)
  /\ LET ref == NewArrayRef({ })
     IN /\ gameState' = NewGame(ref)
        /\ urlState' = NoState
        /\ arrays' = [r \in { ref } |-> << >>]
        /\ hash' = UpdateUrl(gameState', urlState', arrays', hash)
  /\ UNCHANGED << codecVars, config, engineVars, cacheVars >>

\* a choice on the board the round-in-progress view offers, then the
\* update-URL effect
MakeChoice(playerNum, choiceId) ==
  /\ ~ gameState.null
  /\ ~ IsComplete(config, gameState, urlState)
  /\ OfferedPlayer(config, gameState, urlState) = playerNum
  /\ choiceId \in BoardChoices(config)
  /\ LET r == makeChoice(config, gameState, arrays, playerNum, choiceId)
     IN IF r.threw
        THEN UNCHANGED appVars
        ELSE /\ gameState' = r.state
             /\ urlState' = NoState
             /\ arrays' = r.heap
             /\ hash' = UpdateUrl(r.state, NoState, r.heap, hash)
  /\ UNCHANGED << codecVars, config, engineVars, cacheVars >>

\* a choice on the board of the results view, then the update-URL effect
MakeNextChoiceAfterResults(choiceId) ==
  /\ ~ gameState.null
  /\ ~ IsComplete(config, gameState, urlState)
  /\ OffersNextChoice(config, gameState)
  /\ choiceId \in BoardChoices(config)
  /\ gameState' = makeNextChoiceAfterResults(config, gameState, choiceId)
  /\ urlState' = NoState
  /\ UNCHANGED arrays
  /\ hash' = UpdateUrl(gameState', urlState', arrays, hash)
  /\ UNCHANGED << codecVars, config, engineVars, cacheVars >>

\* a page load with h in the address bar: the load effect, then the
\* update-URL effect (which writes nothing while urlState is set)
LoadFromUrl(h) ==
  LET parsed == ParseHash(h)
      ref == NewArrayRef({ })
  IN /\ IF h.fmt /= "empty" /\ parsed.ok
        THEN /\ gameState' = DecodedState(parsed.doc, ref)
             /\ urlState' = gameState'
             /\ arrays' = [r \in { ref } |-> parsed.doc.rounds]
        ELSE /\ gameState' = NoState
             /\ urlState' = NoState
             /\ arrays' = << >>
     /\ hash' = UpdateUrl(gameState', urlState', arrays', h)

\* the other player opens the shared link (or this player reloads)
OpenUrl ==
  /\ LoadFromUrl(hash)
  /\ UNCHANGED << codecVars, config, engineVars, cacheVars >>

\* the links somebody can make of the link h without the help of the App
ForgedHashes(cfg, h) ==
  { [fmt |-> "garbage"] } \cup
  (IF h.fmt /= "b64json" THEN { }
   ELSE { [h EXCEPT !.doc.player1Total = ForgedTotal],
          [h EXCEPT !.doc.currentRound = cfg.progression.totalRounds + 1],
          [h EXCEPT !.doc.flowState = UNDEF],
          [fmt |-> "signed", doc |-> h.doc, tagOk |-> TRUE],
          [fmt |-> "signed", doc |-> h.doc, tagOk |-> FALSE] })

\* a player opens a link that was edited or made up
OpenForgedUrl(h) ==
  /\ h \in ForgedHashes(config, hash)
  /\ h /= hash
  /\ LoadFromUrl(h)
  /\ UNCHANGED << codecVars, config, engineVars, cacheVars >>

OpenSomeForgedUrl == \E h \in ForgedHashes(config, hash) : OpenForgedUrl(h)

\* a click on one of the buttons of the choice board
ClickChoice ==
  \E p \in Players, c \in BoardChoices(config) : MakeChoice(p, c)

\* a click on one of the buttons of the next-round board
ClickNextChoice ==
  \E c \in BoardChoices(config) : MakeNextChoiceAfterResults(c)

AppNext ==
  \/ StartNewGame
  \/ ClickChoice
  \/ ClickNextChoice
  \/ OpenUrl
  \/ OpenSomeForgedUrl

AppInit == CodecIdle /\ EngineIdle /\ AppIdle /\ CacheIdle /\ config \in AppConfigs

SpecApp == AppInit /\ [][AppNext]_vars

\* play through the App alone: the buttons it offers and the links it wrote
PlayNext ==
  \/ StartNewGame
  \/ ClickChoice
  \/ ClickNextChoice
  \/ OpenUrl

SpecPlay == AppInit /\ [][PlayNext]_vars

\* ------------------------------------------------------ handler calls
\* The three handlers called in any order with any argument, whatever the
\* view offers.
\* last round a call of makeNextChoiceAfterResults is followed to
MaxCalledRound == 3

\* the strings a caller may hand over for a choice id
CalledChoices(cfg) == BoardChoices(cfg) \cup { "lizard" }

CallStartNewGame ==
  /\ LET ref == NewArrayRef({ })
     IN /\ gameState' = NewGame(ref)
        /\ urlState' = NoState
        /\ arrays' = [r \in { ref } |-> << >>]
        /\ hash' = UpdateUrl(gameState', urlState', arrays', hash)
  /\ UNCHANGED << codecVars, config, engineVars, cacheVars >>

CallMakeChoice(playerNum, choiceId) ==
  /\ ~ gameState.null
  /\ LET r == makeChoice(config, gameState, arrays, playerNum, choiceId)
     IN IF r.threw
        THEN UNCHANGED appVars
        ELSE /\ gameState' = r.state
             /\ urlState' = NoState
             /\ arrays' = r.heap
             /\ hash' = UpdateUrl(r.state, NoState, r.heap, hash)
  /\ UNCHANGED << codecVars, config, engineVars, cacheVars >>

CallMakeNextChoiceAfterResults(choiceId) ==
  /\ ~ gameState.null
  /\ gameState.currentRound < MaxCalledRound
  /\ gameState' = makeNextChoiceAfterResults(config, gameState, choiceId)
  /\ urlState' = NoState
  /\ UNCHANGED arrays
  /\ hash' = UpdateUrl(gameState', urlState', arrays, hash)
  /\ UNCHANGED << codecVars, config, engineVars, cacheVars >>

CallSomeMakeChoice ==
  \E p \in Players, c \in CalledChoices(config) : CallMakeChoice(p, c)

CallSomeMakeNextChoice ==
  \E c \in CalledChoices(config) : CallMakeNextChoiceAfterResults(c)

HandlersNext ==
  \/ CallStartNewGame
  \/ CallSomeMakeChoice
  \/ CallSomeMakeNextChoice

HandlersInit == CodecIdle /\ EngineIdle /\ AppIdle /\ CacheIdle /\ config = RpsConfig

SpecHandlers == HandlersInit /\ [][HandlersNext]_vars

\* --------------------------------------------------------- App properties
\* decodeSignedData on the link: it returns only for payload '.' tag with
\* the tag of the payload
HashPassesIntegrity(h) == h.fmt = "signed" /\ h.tagOk

\* the document of a link read as a snapshot of the generated schema;
\* the fields the document lacks are undefined (0 for the numeric ones)
DocAsSnapshot(doc) ==
  [gameId |-> UNDEF,
   gameType |-> UNDEF,
   gameVersion |-> UNDEF,
   player1Id |-> UNDEF,
   player2Id |-> UNDEF,
   player1Name |-> UNDEF,
   player2Name |-> UNDEF,
   currentRound |-> Num(doc.currentRound),
   totalRounds |-> 0,
   roundHistory |-> doc.rounds,
   currentStarter |-> 0,
   pendingChoice |-> [present |-> FALSE],
   player1Total |-> doc.player1Total,
   player2Total |-> doc.player2Total,
   createdAt |-> UNDEF,
   updatedAt |-> UNDEF]

\* C3 as stated: the App takes its game state from the link only if the
\* link passed the integrity check and the schema of the configuration;
\* for every other link the game state stays unset.
C3_OnlyVerifiedStateLoaded ==
  ~ urlState.null =>
    /\ HashPassesIntegrity(hash)
    /\ generateGameStateSchema(config, DocAsSnapshot(hash.doc)).success

\* the round history the game state refers to
History == arrays[gameState.rounds]

RECURSIVE SumPlayer1(_)
SumPlayer1(rounds) ==
  IF rounds = << >> THEN 0
  ELSE rounds[1].player1Score + SumPlayer1(Tail(rounds))

RECURSIVE SumPlayer2(_)
SumPlayer2(rounds) ==
  IF rounds = << >> THEN 0
  ELSE rounds[1].player2Score + SumPlayer2(Tail(rounds))

\* C18: whatever the order of the calls of startNewGame, makeChoice and
\* makeNextChoiceAfterResults, player1Total is the sum of player1Score over
\* the round history and player2Total the sum of player2Score.
C18_TotalsAreSums ==
  ~ gameState.null =>
    /\ gameState.player1Total = SumPlayer1(History)
    /\ gameState.player2Total = SumPlayer2(History)

\* C18 witness: two rounds won by player 1 are in the history
C18_Witness ==
  /\ ~ gameState.null
  /\ Len(History) = 2
  /\ gameState.player1Total = 2
  /\ gameState.player2Total = 0 - 2

\* C19 as stated: while the game is in progress the round history has
\* currentRound - 1 entries.
C19_HistoryIsRoundMinusOne ==
  (~ gameState.null /\ ~ IsComplete(config, gameState, urlState)) =>
    Len(History) = gameState.currentRound - 1

\* C19 amended: the history has currentRound - 1 entries while the round
\* awaits a choice and currentRound entries once its second choice is
\* made; the round counter moves with the first choice of the next round.
C19_HistoryLength ==
  ~ gameState.null =>
    Len(History) = IF gameState.flowState = "results_and_next"
                   THEN gameState.currentRound
                   ELSE gameState.currentRound - 1

\* C19 witness: round 1 is in the history and round 2 awaits its second
\* choice
C19_Witness ==
  /\ ~ gameState.null
  /\ gameState.flowState = "waiting_second"
  /\ gameState.currentRound = 2
  /\ Len(History) = 1

\* C20: through the buttons the App offers currentRound stays within
\* 1 .. totalRounds + 1 and no more than totalRounds rounds are played.
C20_RoundWithinGame ==
  ~ gameState.null =>
    /\ gameState.currentRound \in 1 .. (config.progression.totalRounds + 1)
    /\ Len(History) <= config.progression.totalRounds

\* C20 witness: the final round of a two-round game is resolved
C20_Witness ==
  /\ ~ gameState.null
  /\ config.progression.totalRounds = 2
  /\ gameState.flowState = "results_and_next"
  /\ gameState.currentRound = 2
  /\ Len(History) = 2

\* C21 as stated: makeChoice and makeNextChoiceAfterResults leave the
\* snapshot held before the transition, and the snapshot decoded from the
\* link, with the round history they had (their totals are fields of the
\* copied object and cannot change).
C21_PreviousSnapshotKept ==
  [][(ClickChoice \/ ClickNextChoice) =>
       /\ arrays'[gameState.rounds] = arrays[gameState.rounds]
       /\ ~ urlState.null =>
            arrays'[urlState.rounds] = arrays[urlState.rounds]]_vars


\* C22: whenever the state on screen came from a handler of this page, the
\* URL fragment is the encoding of that state; whenever it came from the URL,
\* the fragment is still the text that was loaded (it decodes to the state
\* on screen and was not rewritten with the inferred fields).
C22_UrlFollowsState ==
  /\ (~ gameState.null /\ urlState.null) =>
       hash = EncodeState(gameState, arrays)
  /\ ~ urlState.null =>
       /\ ParseHash(hash).ok
       /\ urlState = gameState
       /\ gameState = DecodedState(ParseHash(hash).doc, gameState.rounds)
       /\ arrays[gameState.rounds] = ParseHash(hash).doc.rounds
       /\ ParseHash(hash).doc.flowState \in { UNDEF, gameState.flowState }

C22_Witness ==
  /\ ~ gameState.null
  /\ urlState.null
  /\ gameState.currentRound = 2
  /\ gameState.flowState = "waiting_second"
  /\ hash = EncodeState(gameState, arrays)


\* ------------------------------------------------------- verifyHMAC calls
\* the texts and the tags a caller hands to verifyHMAC: tags shorter than,
\* as long as and longer than the expected one
SignedTexts == SeqsOf(B64Symbols, 0, MaxSignedLen)
SuppliedTags == SeqsOf(HexDigits, 0, TagLen + 1)

VerifyHMAC(data, signature) ==
  /\ fn' = "verifyHMAC"
  /\ arg' = [data |-> data, signature |-> signature]
  /\ ret' = verifyHMACRun(data, signature)
  /\ UNCHANGED << codecVars, config, appVars, cacheVars >>

VerifySomeTag ==
  /\ fn = "none"
  /\ \E data \in SignedTexts, signature \in SuppliedTags :
       VerifyHMAC(data, signature)

HmacNext == VerifySomeTag

HmacInit == CodecIdle /\ EngineIdle /\ AppIdle /\ CacheIdle /\ config = RpsConfig

SpecHmac == HmacInit /\ [][HmacNext]_vars

\* C23: for a supplied tag of the expected length verifyHMAC reads every
\* position before it returns, wherever the first mismatch is, and returns
\* true exactly when the tag equals the expected one at every position.
C23_EveryPositionExamined ==
  fn = "verifyHMAC" =>
    LET expected == generateHMAC(arg.data)
    IN /\ ret.value = verifyHMAC(arg.data, arg.signature)
       /\ Len(arg.signature) = Len(expected) =>
            /\ ret.examined = Len(expected)
            /\ ret.value <=>
                 \A k \in 1 .. Len(expected) : arg.signature[k] = expected[k]

C23_Witness ==
  /\ fn = "verifyHMAC"
  /\ Len(arg.signature) = TagLen
  /\ arg.signature[1] /= generateHMAC(arg.data)[1]
  /\ arg.signature[TagLen] = generateHMAC(arg.data)[TagLen]
  /\ ret.examined = TagLen
  /\ ~ ret.value


\* ------------------------------------------------------------ fair play
\* Play in which a player who is offered a choice eventually makes one and
\* a link that was written is eventually opened.
SpecPlayFair ==
  /\ AppInit
  /\ [][PlayNext]_vars
  /\ WF_vars(ClickChoice)
  /\ WF_vars(ClickNextChoice)
  /\ WF_vars(OpenUrl)

\* C24: under fair play a game that was begun is eventually reported
\* complete; it is reported complete only when exactly totalRounds rounds are
\* in the history, and the winner shown is the player whose scores over
\* those rounds add up to more (a tie when they add up to the same).
C24_GameCompletes ==
  /\ (~ gameState.null) ~> IsComplete(config, gameState, urlState)
  /\ [](IsComplete(config, gameState, urlState) =>
          /\ Len(History) = config.progression.totalRounds
          /\ gameState.player1Total = SumPlayer1(History)
          /\ gameState.player2Total = SumPlayer2(History)
          /\ Winner(gameState) =
               IF SumPlayer1(History) > SumPlayer2(History) THEN "Player 1"
               ELSE IF SumPlayer2(History) > SumPlayer1(History)
               THEN "Player 2"
               ELSE "Tie")
  /\ []((~ gameState.null /\ ~ urlState.null
          /\ Len(History) = config.progression.totalRounds) =>
          IsComplete(config, gameState, urlState))

C24_Witness ==
  /\ IsComplete(config, gameState, urlState)
  /\ config.progression.totalRounds = 2
  /\ Len(History) = 2
  /\ gameState.player1Total = 2
  /\ Winner(gameState) = "Player 1"


\* ---------------------------------------------------- schema cache calls
GetGameSchemas(cfg) ==
  /\ LET r == getGameSchemas(schemaCache, generated, cfg)
     IN /\ r.count <= MaxGenerated
        /\ fn' = "getGameSchemas"
        /\ arg' = cfg
        /\ ret' = r.cached
        /\ schemaCache' = r.cache
        /\ generated' = r.count
  /\ UNCHANGED << codecVars, config, appVars >>

ClearSchemaCache ==
  /\ fn' = "clearSchemaCache"
  /\ arg' = [none |-> TRUE]
  /\ ret' = [none |-> TRUE]
  /\ schemaCache' = << >>
  /\ UNCHANGED generated
  /\ UNCHANGED << codecVars, config, appVars >>

GetSomeGameSchemas == \E cfg \in SchemaConfigs : GetGameSchemas(cfg)

SchemasNext ==
  \/ GetSomeGameSchemas
  \/ ClearSchemaCache

SchemasInit ==
  CodecIdle /\ EngineIdle /\ AppIdle /\ CacheIdle /\ config = RpsConfig

SpecSchemas == SchemasInit /\ [][SchemasNext]_vars

SameIdAndVersion(c, d) ==
  /\ c.metadata.id = d.metadata.id
  /\ c.metadata.version = d.metadata.version

CachedSchemas == { schemaCache[k] : k \in DOMAIN schemaCache }

ChoicesSet(gs) ==
  (IF Truthy(gs.player1Choice) THEN 1 ELSE 0)
  + (IF Truthy(gs.player2Choice) THEN 1 ELSE 0)

\* C26: after startNewGame and any calls of makeChoice and
\* makeNextChoiceAfterResults, flowState is 'waiting_first' iff no choice is
\* set, 'waiting_second' iff exactly one is, 'results_and_next' iff both are.
C26_FlowAgreesWithChoices ==
  ~ gameState.null =>
    /\ gameState.flowState = "waiting_first" <=> ChoicesSet(gameState) = 0
    /\ gameState.flowState = "waiting_second" <=> ChoicesSet(gameState) = 1
    /\ gameState.flowState = "results_and_next" <=> ChoicesSet(gameState) = 2

C26_Witness ==
  /\ ~ gameState.null
  /\ gameState.flowState = "results_and_next"
  /\ ChoicesSet(gameState) = 2
  /\ gameState.currentRound = 2


\* C27 as stated: in every state that shows the results of round r with a
\* round still to play, the starter of round r + 1 is the player other than
\* whoWentFirst (the player who completed round r), so that the choice this
\* player chains is stored in their own field, whatever alternateStarter is.
C27_NextStarterCompletedRound ==
  (/\ ~ gameState.null
   /\ gameState.flowState = "results_and_next"
   /\ gameState.currentRound < config.progression.totalRounds) =>
    determineRoundStarter(config, gameState.currentRound + 1)
      /= gameState.whoWentFirst


\* C28 as stated: a state loaded from a link that carries no flow marker
\* gets the marker that agrees with its choice fields: 'waiting_first' with
\* no choice set, 'waiting_second' with one, 'results_and_next' with both.
C28_InferredFlowAgrees ==
  (/\ ~ urlState.null
   /\ ~ Truthy(ParseHash(hash).doc.flowState)) =>
    gameState.flowState =
      CASE ChoicesSet(gameState) = 0 -> "waiting_first"
        [] ChoicesSet(gameState) = 1 -> "waiting_second"
        [] ChoicesSet(gameState) = 2 -> "results_and_next"


\* C29: while currentRound is at most totalRounds and the round is not
\* complete, determineNextPlayer names a player and canPlayerMove is true
\* for that player and false for the other one; when the round is complete
\* or currentRound is past totalRounds canPlayerMove is false for either
\* player.
C29_OnlyNextPlayerMoves ==
  fn = "canPlayerMove" =>
    LET nextPlayer == determineNextPlayer(config, arg.currentRound,
                                          arg.player1Choice,
                                          arg.player2Choice)
        open == /\ arg.currentRound <= config.progression.totalRounds
                /\ ~ isRoundComplete(arg.player1Choice, arg.player2Choice)
    IN IF open
       THEN /\ ~ nextPlayer.none
            /\ ret.value <=> nextPlayer.player = arg.player
       ELSE ~ ret.value

C29_Witness ==
  /\ fn = "canPlayerMove"
  /\ arg.currentRound = 2
  /\ config.progression.totalRounds = 2
  /\ config.progression.alternateStarter
  /\ config.progression.startingPlayer = 1
  /\ arg.player1Choice = UNDEF
  /\ arg.player2Choice = UNDEF
  /\ arg.player = 2
  /\ ret.value


\* C30 as stated: a duplicate-rule entry is reported only for a document in
\* which two payoff rules have the same ordered pair of choices, and a
\* document without structural violation, with pairwise distinct choice ids
\* and exactly one rule for every ordered pair of them (and no other rule)
\* is accepted by loadGameConfig.
C30_OneRulePerPairAccepted ==
  fn = "loadGameConfig" =>
    LET d == arg.yamlData
        ids == ChoiceIdsOf(d)
    IN /\ Lists("duplicate") => HasDuplicateRule(d)
       /\ (/\ ~ HasStructuralViolation(d)
           /\ \A i, j \in 1 .. Len(d.choices) :
                d.choices[i].id = d.choices[j].id => i = j
           /\ \A a, b \in ids : Cardinality(RulesFor(d, a, b)) = 1
           /\ ~ HasUnknownChoice(d)
           /\ ~ HasWrongSize(d)) => ret.ok

====
